---- MODULE Spec2Model ----
(***************************************************************************)
(* Model of utils/zones_handling.py: the ZonesHandler constructor, which   *)
(* parses the zone DSL line by line into the table self.zones, and its     *)
(* query methods.                                                          *)
(*                                                                         *)
(* A source string is a sequence of characters.  Every character is a      *)
(* one-character string, except that the text of a Python literal (a list  *)
(* or a tuple) is one element of the sequence, a literal token, whose      *)
(* first and last character and whose ast.literal_eval value are given by  *)
(* Literals.  Shapes are closed subsets of a simplicial complex over a     *)
(* small integer grid on which the shapes the sources use are exact.       *)
(***************************************************************************)
EXTENDS Integers, Sequences, FiniteSets, TLC

VARIABLES code_str, circle_res, pc, idx, zones, zone_order, err, zh, last,
          raw_data, discontinuities, processed_data, filtered_data, dpc, args

(* the state of the zone handler and the state of the tracking data *)
zoning == <<code_str, circle_res, pc, idx, zones, zone_order, err, zh, last>>
tracking == <<raw_data, discontinuities, processed_data, filtered_data, dpc, args>>
vars == <<zoning, tracking>>

(***************************************************************************)
(* Bounds                                                                  *)
(***************************************************************************)
GridMax == 6
QueryMax == 1
MaxLines == 3
MaxFrames == 4

(***************************************************************************)
(* Python values produced by ast.literal_eval                              *)
(***************************************************************************)
PyInt(n) == [kind |-> "int", val |-> n, items |-> <<>>]
PyBool(b) == [kind |-> "bool", val |-> IF b THEN 1 ELSE 0, items |-> <<>>]
PyStr(n) == [kind |-> "str", val |-> n, items |-> <<>>]
PyTuple(s) == [kind |-> "tuple", val |-> 0, items |-> s]
PyList(s) == [kind |-> "list", val |-> 0, items |-> s]
PyRaise == [kind |-> "raise", val |-> 0, items |-> <<>>]

Pair(x, y) == PyTuple(<<PyInt(x), PyInt(y)>>)
Triple(x, y, r) == PyTuple(<<PyInt(x), PyInt(y), PyInt(r)>>)

(* isinstance(v, (list, tuple)) *)
IsListOrTuple(v) == v.kind \in {"list", "tuple"}

(* isinstance(v, (int, float)): bool is a subclass of int *)
IsIntOrFloat(v) == v.kind \in {"int", "bool"}

(***************************************************************************)
(* The literal tokens of the sources, with the value ast.literal_eval      *)
(* returns for their text                                                  *)
(***************************************************************************)
Literals ==
    [ tok \in {"[sqA]", "[sqB]", "[sqC]", "[big]", "[s04]", "[s26]", "[tri]", "[bow]", "[bw2]", "[col]",
               "[]", "[two]", "[one]", "[str]", "[trp]", "[num]",
               "(cir)", "(r0)", "(neg)", "(two)", "(four)", "(str)", "(tru)"}
      |->
      CASE tok = "[sqA]" -> PyList(<<Pair(0,0), Pair(1,0), Pair(1,1), Pair(0,1)>>)
        [] tok = "[sqB]" -> PyList(<<Pair(1,0), Pair(2,0), Pair(2,1), Pair(1,1)>>)
        [] tok = "[sqC]" -> PyList(<<Pair(1,1), Pair(2,1), Pair(2,2), Pair(1,2)>>)
        [] tok = "[big]" -> PyList(<<Pair(0,0), Pair(2,0), Pair(2,2), Pair(0,2)>>)
        [] tok = "[s04]" -> PyList(<<Pair(0,0), Pair(4,0), Pair(4,4), Pair(0,4)>>)
        [] tok = "[s26]" -> PyList(<<Pair(2,2), Pair(6,2), Pair(6,6), Pair(2,6)>>)
        [] tok = "[tri]" -> PyList(<<Pair(2,2), Pair(1,2), Pair(2,1)>>)
        [] tok = "[bow]" -> PyList(<<Pair(0,0), Pair(2,2), Pair(2,0), Pair(0,2)>>)
        [] tok = "[bw2]" -> PyList(<<Pair(1,0), Pair(0,1), Pair(1,1), Pair(0,0)>>)
        [] tok = "[col]" -> PyList(<<Pair(0,0), Pair(1,1), Pair(2,2)>>)
        [] tok = "[]"    -> PyList(<<>>)
        [] tok = "[two]" -> PyList(<<Pair(0,0), Pair(1,1)>>)
        [] tok = "[one]" -> PyList(<<Pair(0,0)>>)
        [] tok = "[str]" -> PyList(<<PyTuple(<<PyStr(0), PyStr(1)>>), Pair(1,0), Pair(1,1)>>)
        [] tok = "[trp]" -> PyList(<<Triple(0,0,0), Pair(1,0), Pair(1,1)>>)
        [] tok = "[num]" -> PyList(<<PyInt(0), PyInt(1), PyInt(2)>>)
        [] tok = "(cir)" -> Triple(1,1,1)
        [] tok = "(r0)"  -> Triple(1,1,0)
        [] tok = "(neg)" -> Triple(1,1,-1)
        [] tok = "(two)" -> Pair(1,1)
        [] tok = "(four)" -> PyTuple(<<PyInt(1), PyInt(1), PyInt(1), PyInt(1)>>)
        [] tok = "(str)" -> PyTuple(<<PyInt(1), PyInt(1), PyStr(1)>>)
        [] tok = "(tru)" -> PyTuple(<<PyInt(1), PyInt(1), PyBool(TRUE)>>) ]

IsLiteral(c) == c \in DOMAIN Literals

(* the first and the last character of the text of one element *)
FirstChar(c) ==
    IF ~IsLiteral(c) THEN c
    ELSE IF c \in {"(cir)", "(r0)", "(neg)", "(two)", "(four)", "(str)", "(tru)"}
         THEN "(" ELSE "["

LastChar(c) ==
    IF ~IsLiteral(c) THEN c
    ELSE IF c \in {"(cir)", "(r0)", "(neg)", "(two)", "(four)", "(str)", "(tru)"}
         THEN ")"
         ELSE "]"

(***************************************************************************)
(* str methods and regular expressions                                     *)
(***************************************************************************)
(* str.isspace of one character *)
IsSpace(c) == c \in {" ", "\n"}

(* \w of one character *)
IsWord(c) == c \in {"a", "b", "c", "d", "U", "I"}

RECURSIVE LStrip(_)
LStrip(s) ==
    IF s = <<>> THEN <<>>
    ELSE IF IsSpace(Head(s)) THEN LStrip(Tail(s)) ELSE s

RECURSIVE RStrip(_)
RStrip(s) ==
    IF s = <<>> THEN <<>>
    ELSE IF IsSpace(s[Len(s)]) THEN RStrip(SubSeq(s, 1, Len(s) - 1)) ELSE s

(* str.strip() *)
Strip(s) == RStrip(LStrip(s))

(* index of the first occurrence of c in s, or Len(s) + 1 *)
RECURSIVE FindChar(_, _, _)
FindChar(s, c, i) ==
    IF i > Len(s) THEN i
    ELSE IF s[i] = c THEN i ELSE FindChar(s, c, i + 1)

(* str.splitlines() *)
RECURSIVE SplitLines(_)
SplitLines(s) ==
    IF s = <<>> THEN <<>>
    ELSE LET k == FindChar(s, "\n", 1)
         IN  <<SubSeq(s, 1, k - 1)>> \o SplitLines(SubSeq(s, k + 1, Len(s)))

(* variant: the comment is not removed *)
StripCommentKept(raw) == Strip(raw)

(* raw.split('#', 1)[0].strip() *)
StripComment(raw) == Strip(SubSeq(raw, 1, FindChar(raw, "#", 1) - 1))

(* length of the longest prefix of s from position i made of characters *)
(* satisfying the class: word characters (w = TRUE) or whitespace        *)
RECURSIVE Run(_, _, _)
Run(s, i, w) ==
    IF i > Len(s) THEN 0
    ELSE IF (w /\ IsWord(s[i])) \/ (~w /\ IsSpace(s[i]))
         THEN 1 + Run(s, i + 1, w) ELSE 0

(* assign_re = ^(\w+)\s*=\s*(.+)$ on a stripped line: the groups, or no match *)
AssignMatch(line) ==
    LET n == Run(line, 1, TRUE)
        e == n + Run(line, n + 1, FALSE) + 1
        x == e + Run(line, e + 1, FALSE) + 1
    IN  IF n >= 1 /\ e <= Len(line) /\ line[e] = "=" /\ x <= Len(line)
        THEN [ok |-> TRUE, name |-> SubSeq(line, 1, n), expr |-> SubSeq(line, x, Len(line))]
        ELSE [ok |-> FALSE, name |-> <<>>, expr |-> <<>>]

IsOpChar(c) == c \in {"U", "I", "-", "^"}

(* variant: the pattern is not anchored at the end of the expression *)
OpRestUnanchored(expr, k) ==
    LET o == k + Run(expr, k + 1, FALSE) + 1
        r == o + Run(expr, o + 1, FALSE) + 1
    IN  IF o <= Len(expr) /\ IsOpChar(expr[o]) /\ r <= Len(expr)
           /\ Run(expr, r, TRUE) >= 1
        THEN [ok |-> TRUE, left |-> SubSeq(expr, 1, k), op |-> expr[o],
              right |-> SubSeq(expr, r, r + Run(expr, r, TRUE) - 1)]
        ELSE [ok |-> FALSE, left |-> <<>>, op |-> "", right |-> <<>>]

(* the match of \s*([UI\-\^])\s*(\w+)$ after a left operand of k characters *)
OpRest(expr, k) ==
    LET o == k + Run(expr, k + 1, FALSE) + 1
        r == o + Run(expr, o + 1, FALSE) + 1
    IN  IF o <= Len(expr) /\ IsOpChar(expr[o]) /\ r <= Len(expr)
           /\ r + Run(expr, r, TRUE) = Len(expr) + 1
        THEN [ok |-> TRUE, left |-> SubSeq(expr, 1, k), op |-> expr[o],
              right |-> SubSeq(expr, r, Len(expr))]
        ELSE [ok |-> FALSE, left |-> <<>>, op |-> "", right |-> <<>>]

(* op_re = ^(\w+)\s*([UI\-\^])\s*(\w+)$: the greedy left operand is the *)
(* longest word prefix after which the rest of the pattern matches      *)
OpMatch(expr) ==
    LET n == Run(expr, 1, TRUE)
        ks == {k \in 1..n : OpRest(expr, k).ok}
    IN  IF ks = {} THEN [ok |-> FALSE, left |-> <<>>, op |-> "", right |-> <<>>]
        ELSE OpRest(expr, CHOOSE k \in ks : \A j \in ks : j <= k)

(* ast.literal_eval(expr): the text of one literal evaluates to its value, *)
(* any other text over these characters is not a Python literal            *)
LiteralEval(expr) ==
    IF Len(expr) = 1 /\ IsLiteral(expr[1]) THEN Literals[expr[1]] ELSE PyRaise

(***************************************************************************)
(* Planar geometry (shapely).  The square [0, GridMax]^2 is triangulated:  *)
(* every unit square is cut by its two diagonals.  Points are held in      *)
(* doubled coordinates, so that the centres of the unit squares are        *)
(* integral.  A cell is the set of its 1, 2 or 3 corners and stands for    *)
(* the open simplex they span; a geometry is a set of cells closed under   *)
(* taking faces, i.e. the closed point set that is their union.            *)
(***************************************************************************)
Corners == {<<2 * i, 2 * j>> : i \in 0..GridMax, j \in 0..GridMax}

Centres == {<<2 * i + 1, 2 * j + 1>> : i \in 0..(GridMax - 1), j \in 0..(GridMax - 1)}

Triangles ==
    UNION {
      LET c == <<2 * i + 1, 2 * j + 1>>
          sw == <<2 * i, 2 * j>>
          se == <<2 * i + 2, 2 * j>>
          ne == <<2 * i + 2, 2 * j + 2>>
          nw == <<2 * i, 2 * j + 2>>
      IN  {{sw, se, c}, {se, ne, c}, {ne, nw, c}, {nw, sw, c}}
      : i \in 0..(GridMax - 1), j \in 0..(GridMax - 1) }

Faces(cell) == (SUBSET cell) \ {{}}

(* topological closure of a set of cells *)
Closure(S) == UNION {Faces(cell) : cell \in S}

Dim(cell) == Cardinality(cell) - 1

(* cross product (b - a) x (c - a) *)
Cross(a, b, c) == (b[1] - a[1]) * (c[2] - a[2]) - (b[2] - a[2]) * (c[1] - a[1])

Sign(n) == IF n > 0 THEN 1 ELSE IF n < 0 THEN -1 ELSE 0

Min2(a, b) == IF a <= b THEN a ELSE b
Max2(a, b) == IF a >= b THEN a ELSE b

(* c lies on the closed segment a-b *)
OnSegment(a, b, c) ==
    /\ Cross(a, b, c) = 0
    /\ Min2(a[1], b[1]) <= c[1] /\ c[1] <= Max2(a[1], b[1])
    /\ Min2(a[2], b[2]) <= c[2] /\ c[2] <= Max2(a[2], b[2])

(* the closed segments a-b and c-d have a point in common *)
SegmentsIntersect(a, b, c, d) ==
    \/ /\ Sign(Cross(a, b, c)) * Sign(Cross(a, b, d)) < 0
       /\ Sign(Cross(c, d, a)) * Sign(Cross(c, d, b)) < 0
    \/ OnSegment(a, b, c) \/ OnSegment(a, b, d)
    \/ OnSegment(c, d, a) \/ OnSegment(c, d, b)

(* the coordinate sequence without repeated consecutive points *)
RECURSIVE NoRepeats(_)
NoRepeats(r) ==
    IF Len(r) <= 1 THEN r
    ELSE IF r[1] = r[2] THEN NoRepeats(Tail(r))
         ELSE <<r[1]>> \o NoRepeats(Tail(r))

(* the ring of a shell: shapely closes it when its ends differ *)
CloseRing(pts) ==
    IF pts # <<>> /\ pts[1] # pts[Len(pts)] THEN Append(pts, pts[1]) ELSE pts

(* GEOS validity of a polygon with the closed shell ring r and no holes:  *)
(* at least 4 non-repeated points, and the ring is simple (segments meet  *)
(* only at the common end point of consecutive segments)                  *)
RingIsValid(ring) ==
    LET r == NoRepeats(ring)
        n == Len(r) - 1
        Adjacent(i, j) == j = i + 1 \/ (i = 1 /\ j = n)
    IN  /\ Len(r) >= 4
        /\ \A i \in 1..n : \A j \in (i + 1)..n :
              IF Adjacent(i, j)
              THEN LET shared == IF j = i + 1 THEN r[j] ELSE r[1]
                       pi == IF j = i + 1 THEN r[i] ELSE r[2]
                       pj == IF j = i + 1 THEN r[j + 1] ELSE r[n]
                   IN  /\ ~OnSegment(shared, pj, pi)
                       /\ ~OnSegment(shared, pi, pj)
              ELSE ~SegmentsIntersect(r[i], r[i + 1], r[j], r[j + 1])

(* the point q (scaled by 6) is strictly inside the ring (scaled by 1):   *)
(* crossing number of the ray from q in direction +x                      *)
Inside(ring, q) ==
    LET n == Len(ring) - 1
        Crosses(i) ==
            LET a == <<6 * ring[i][1], 6 * ring[i][2]>>
                b == <<6 * ring[i + 1][1], 6 * ring[i + 1][2]>>
            IN  /\ (a[2] > q[2]) # (b[2] > q[2])
                /\ IF b[2] > a[2] THEN Cross(a, b, q) > 0 ELSE Cross(a, b, q) < 0
    IN  Cardinality({i \in 1..n : Crosses(i)}) % 2 = 1

(* three times the centroid of a triangle (doubled coordinates), i.e. the *)
(* centroid scaled by 6                                                   *)
Centroid6(t) ==
    LET a == CHOOSE p \in t : TRUE
        b == CHOOSE p \in t \ {a} : TRUE
        c == CHOOSE p \in t \ {a, b} : TRUE
    IN  <<a[1] + b[1] + c[1], a[2] + b[2] + c[2]>>

(* the geometry of Polygon(shell): the closed region bounded by the ring *)
PolygonCells(pts) ==
    IF pts = <<>> THEN {}
    ELSE Closure({t \in Triangles : Inside(CloseRing(pts), Centroid6(t))})

(* float(v) of a numeric component: True is 1 and False is 0 *)
NumberOf(v) == v.val

(* Polygon(coords), with shapely's own failures: no ring can be built    *)
(* from components that are not numbers, nor from 1 or 2 coordinates; an *)
(* empty coordinate list gives the empty polygon                         *)
Polygon(coords) ==
    IF \E k \in 1..Len(coords) : \E m \in 1..2 : ~IsIntOrFloat(coords[k].items[m])
    THEN [raised |-> TRUE, pts |-> <<>>]
    ELSE IF Len(coords) \in {1, 2}
         THEN [raised |-> TRUE, pts |-> <<>>]
         ELSE [raised |-> FALSE,
               pts |-> [k \in 1..Len(coords) |->
                          <<NumberOf(coords[k].items[1]), NumberOf(coords[k].items[2])>>]]

(* variant: validity is not examined *)
IsValidUnchecked(pts) == TRUE

(* poly.is_valid: the empty polygon is valid *)
IsValid(pts) == pts = <<>> \/ RingIsValid(CloseRing(pts))

(* the shell of Point(cx, cy).buffer(r, resolution): resolution is the   *)
(* number of segments per quarter circle, so the ring has 4 * resolution *)
(* vertices on the circle; for resolution 1 they are the four points at  *)
(* distance r along the axes, clockwise from (cx + r, cy)                *)
BufferRing(cx, cy, r, res) ==
    <<<<cx + r, cy>>, <<cx, cy - r>>, <<cx - r, cy>>, <<cx, cy + r>>>>

(* variant: the entries of union and intersection are exchanged *)
SetOpExchanged(op, A, B) ==
    CASE op = "U" -> A \cap B
      [] op = "I" -> A \cup B
      [] op = "-" -> Closure(A \ B)
      [] op = "^" -> Closure((A \ B) \cup (B \ A))

(* op_map[op](A, B): union and intersection are those of the closed point *)
(* sets (an intersection keeps the segments and points where the operands *)
(* only touch); a difference is the closure of what is left               *)
SetOp(op, A, B) ==
    CASE op = "U" -> A \cup B
      [] op = "I" -> A \cap B
      [] op = "-" -> Closure(A \ B)
      [] op = "^" -> Closure((A \ B) \cup (B \ A))

(* geom.is_empty *)
IsEmpty(g) == g = {}

(* variant: the area of the envelope of the geometry *)
Area4Envelope(g) ==
    IF g = {} THEN 0
    ELSE LET xs == {q[1] : q \in UNION g}
             ys == {q[2] : q \in UNION g}
             Lo(S) == CHOOSE m \in S : \A n \in S : m <= n
             Hi(S) == CHOOSE m \in S : \A n \in S : m >= n
         IN  (Hi(xs) - Lo(xs)) * (Hi(ys) - Lo(ys))

(* geom.area, in quarters of a unit square *)
Area4(g) == Cardinality({c \in g : Dim(c) = 2})

(***************************************************************************)
(* Exceptions.  Every ValueError of the constructor carries the line       *)
(* number in its message; an exception raised inside shapely carries none. *)
(***************************************************************************)
NoErr == [kind |-> "none", line |-> 0, zone |-> <<>>]
Raise(k, i, n) == [kind |-> k, line |-> i, zone |-> n]

(* the kinds the spec calls SyntaxError and ShapeError *)
SyntaxKinds == {"SyntaxError", "InvalidExpression"}
ShapeKinds == {"InvalidCoords", "CoordsNotPairs", "PolygonInvalid",
               "InvalidCircle", "CircleNotTriple", "CircleRadius"}

(* the result of evaluating the right-hand side of one line *)
Failed(e) == [err |-> e, shape |-> {}]
Produced(g) == [err |-> NoErr, shape |-> g]

(* _parse_coords *)
CoordsArePairs(v) ==
    /\ IsListOrTuple(v)
    /\ \A k \in 1..Len(v.items) : IsListOrTuple(v.items[k]) /\ Len(v.items[k].items) = 2

ParseCoords(expr, name, i) ==
    LET v == LiteralEval(expr)
    IN  IF v.kind = "raise" THEN [err |-> Raise("InvalidCoords", i, name), coords |-> <<>>]
        ELSE IF ~CoordsArePairs(v)
             THEN [err |-> Raise("CoordsNotPairs", i, name), coords |-> <<>>]
             ELSE [err |-> NoErr, coords |-> v.items]

(* the polygon branch of __init__ *)
PolygonLine(name, expr, i) ==
    LET pc0 == ParseCoords(expr, name, i)
        poly == Polygon(pc0.coords)
    IN  IF pc0.err # NoErr THEN Failed(pc0.err)
        ELSE IF poly.raised THEN Failed(Raise("ShapelyError", 0, <<>>))
        ELSE IF ~IsValid(poly.pts) THEN Failed(Raise("PolygonInvalid", i, name))
        ELSE Produced(PolygonCells(poly.pts))

(* _parse_circle *)
CircleIsTriple(v) ==
    /\ IsListOrTuple(v)
    /\ Len(v.items) = 3
    /\ \A k \in 1..Len(v.items) : IsIntOrFloat(v.items[k])

(* variant: a zero radius passes *)
RadiusOkZero(r) == ~(r < 0)

RadiusOk(r) == ~(r <= 0)

(***************************************************************************)
(* The buffer of 128 segments per quarter circle.  For radius 1 it is the  *)
(* regular 512-gon inscribed in the circle: the inscribed square and, in   *)
(* each of the four unit squares around the centre, a cap between a side   *)
(* of the inscribed square and the ring.  In such a unit square the ring   *)
(* runs from the two corners on the axes to its vertex at 45 degrees,      *)
(* which lies on the half diagonal from the centre of the unit square to   *)
(* its far corner.  The triangulation is refined there: the half diagonal  *)
(* is cut at the vertex of the ring, and each of the two triangles on it   *)
(* is cut along the ring into the part inside and the part outside the     *)
(* buffer.  A geometry of the refined triangulation is again a set of      *)
(* cells closed under taking faces; its points are in thousandths of the   *)
(* doubled coordinates.                                                    *)
(***************************************************************************)
(* ZonesHandler(zone_code, circle_resolution=128) *)
CallbackResolution == 128

Scale == 1000

Fine(p) == <<Scale * p[1], Scale * p[2]>>

(* the circles the sources buffer: centre and radius, all of radius 1 *)
Circles ==
    { <<NumberOf(v.items[1]), NumberOf(v.items[2]), NumberOf(v.items[3])>> :
      v \in {Literals[c] : c \in {x \in DOMAIN Literals :
                                     /\ FirstChar(x) = "(" /\ LastChar(x) = ")"
                                     /\ CircleIsTriple(Literals[x])
                                     /\ RadiusOk(NumberOf(Literals[x].items[3]))}} }

Quadrants == {<<1, 1>>, <<1, 0 - 1>>, <<0 - 1, 1>>, <<0 - 1, 0 - 1>>}

(* the unit square of the quadrant s of the circle k: its centre, its *)
(* corner opposite to the centre of the circle, its two corners on    *)
(* the axes through the centre of the circle                          *)
SquareCentre(k, s) == <<2 * k[1] + s[1], 2 * k[2] + s[2]>>
FarCorner(k, s) == <<2 * k[1] + 2 * s[1], 2 * k[2] + 2 * s[2]>>
AxisCorners(k, s) == {<<2 * k[1] + 2 * s[1], 2 * k[2]>>, <<2 * k[1], 2 * k[2] + 2 * s[2]>>}

(* 1000 * 2 * cos(45 degrees), truncated *)
Diag45 == 1414

(* the vertex of the ring at 45 degrees in the quadrant s *)
RingVertex(k, s) ==
    <<Scale * 2 * k[1] + Diag45 * s[1], Scale * 2 * k[2] + Diag45 * s[2]>>

Arcs == {<<k, s>> : k \in Circles, s \in Quadrants}

(* the cells of the refined triangulation that make up one cell: a cell *)
(* on the half diagonal a ring crosses is cut at the vertex of the ring *)
RefineCell(c) ==
    LET on == {a \in Arcs : {SquareCentre(a[1], a[2]), FarCorner(a[1], a[2])} \subseteq c}
    IN  IF on = {} THEN {{Fine(p) : p \in c}}
        ELSE LET a == CHOOSE x \in on : TRUE
                 m == SquareCentre(a[1], a[2])
                 q == FarCorner(a[1], a[2])
                 v == RingVertex(a[1], a[2])
                 rest == {Fine(p) : p \in c \ {m, q}}
             IN  {rest \cup {Fine(m), v}, rest \cup {v, Fine(q)}, rest \cup {v}}

(* a geometry of the triangulation as one of the refined triangulation *)
Refine(g) == UNION {RefineCell(c) : c \in g}

(* the eight half caps of the buffer of the circle k *)
Caps(k) ==
    Closure(UNION { { {Fine(p), Fine(SquareCentre(k, s)), RingVertex(k, s)} :
                      p \in AxisCorners(k, s) } : s \in Quadrants })

(* Point(cx, cy).buffer(r, resolution): with one segment per quarter    *)
(* circle the buffer is the square with corners at distance r along the *)
(* axes; with 128 segments and radius 1 it is that square and the caps  *)
(* up to the ring, in the refined triangulation                         *)
Buffer(cx, cy, r, res) ==
    IF res = 1 THEN PolygonCells(BufferRing(cx, cy, r, res))
    ELSE Refine(PolygonCells(BufferRing(cx, cy, r, res))) \cup Caps(<<cx, cy, r>>)

ParseCircle(expr, name, i, res) ==
    LET v == LiteralEval(expr)
    IN  IF v.kind = "raise" THEN Failed(Raise("InvalidCircle", i, name))
        ELSE IF ~CircleIsTriple(v) THEN Failed(Raise("CircleNotTriple", i, name))
        ELSE IF ~RadiusOk(NumberOf(v.items[3])) THEN Failed(Raise("CircleRadius", i, name))
        ELSE Produced(Buffer(NumberOf(v.items[1]), NumberOf(v.items[2]),
                             NumberOf(v.items[3]), res))

(* variant: only the left operand is looked up *)
UnknownOperandsLeftOnly(zs, left, right) ==
    IF left \notin DOMAIN zs THEN <<left>> ELSE <<>>

(* the first operand that is not a key of self.zones, left before right *)
UnknownOperands(zs, left, right) ==
    IF left \notin DOMAIN zs THEN <<left>>
    ELSE IF right \notin DOMAIN zs THEN <<right>> ELSE <<>>

(* result.is_empty makes the line fail *)
ResultRejected(g) == IsEmpty(g)

(* variant: the operands are passed to the operation in reverse order *)
SetOpLineReversed(zs, name, expr, i) ==
    LET m2 == OpMatch(expr)
        unknown == UnknownOperands(zs, m2.left, m2.right)
    IN  IF ~m2.ok THEN Failed(Raise("InvalidExpression", i, name))
        ELSE IF unknown # <<>> THEN Failed(Raise("UnknownZone", i, unknown[1]))
        ELSE IF m2.left \notin DOMAIN zs \/ m2.right \notin DOMAIN zs
             THEN Failed(Raise("KeyError", 0, <<>>))
        ELSE LET result == SetOp(m2.op, zs[m2.right], zs[m2.left])
             IN  IF ResultRejected(result) THEN Failed(Raise("EmptyResult", i, name))
                 ELSE Produced(result)

(* the set-operation branch of __init__ *)
SetOpLine(zs, name, expr, i) ==
    LET m2 == OpMatch(expr)
        unknown == UnknownOperands(zs, m2.left, m2.right)
    IN  IF ~m2.ok THEN Failed(Raise("InvalidExpression", i, name))
        ELSE IF unknown # <<>> THEN Failed(Raise("UnknownZone", i, unknown[1]))
        ELSE IF m2.left \notin DOMAIN zs \/ m2.right \notin DOMAIN zs
             THEN Failed(Raise("KeyError", 0, <<>>))    \* self.zones[...] of a missing key
        ELSE LET result == SetOp(m2.op, zs[m2.left], zs[m2.right])
             IN  IF ResultRejected(result) THEN Failed(Raise("EmptyResult", i, name))
                 ELSE Produced(result)

(* variant: a name that is bound keeps its first shape *)
DictSetKeepFirst(zs, name, shape) ==
    [n \in DOMAIN zs \cup {name} |-> IF n \in DOMAIN zs THEN zs[n] ELSE shape]

(* self.zones[name] = shape: a dict keeps the position of a key it has *)
DictSet(zs, name, shape) ==
    [n \in DOMAIN zs \cup {name} |-> IF n = name THEN shape ELSE zs[n]]

(* variant: a name that is bound again moves to the end *)
DictOrderMoveToEnd(order, zs, name) ==
    Append(SelectSeq(order, LAMBDA n : n # name), name)

(* the key order of the dict: a new key goes to the end *)
DictOrder(order, zs, name) ==
    IF name \in DOMAIN zs THEN order ELSE Append(order, name)

(***************************************************************************)
(* The constructor, one step per source line                               *)
(***************************************************************************)
(* enumerate(code_str.strip().splitlines(), 1) *)
Lines(code) == SplitLines(Strip(code))

(* the loop position: idx lines have been consumed *)
Building == pc = "building" /\ idx < Len(Lines(code_str))
CurLine == StripComment(Lines(code_str)[idx + 1])
CurMatch == AssignMatch(CurLine)
IsPolygonExpr(expr) == FirstChar(expr[1]) = "["
IsCircleExpr(expr) == FirstChar(expr[1]) = "(" /\ LastChar(expr[Len(expr)]) = ")"

(* variant: a failing line is dropped and the loop goes on *)
FinishSwallow(name, r) ==
    /\ idx' = idx + 1
    /\ err' = r.err
    /\ pc' = "building"
    /\ IF r.err = NoErr
       THEN /\ zones' = DictSet(zones, name, r.shape)
            /\ zone_order' = DictOrder(zone_order, zones, name)
       ELSE UNCHANGED <<zones, zone_order>>
    /\ UNCHANGED <<code_str, circle_res, zh, last, tracking>>

(* what the three branches share: bind the name or raise *)
Finish(name, r) ==
    /\ idx' = idx + 1
    /\ err' = r.err
    /\ IF r.err = NoErr
       THEN /\ zones' = DictSet(zones, name, r.shape)
            /\ zone_order' = DictOrder(zone_order, zones, name)
            /\ pc' = "building"
       ELSE /\ UNCHANGED <<zones, zone_order>>
            /\ pc' = "failed"
    /\ UNCHANGED <<code_str, circle_res, zh, last, tracking>>

SkipLine ==
    /\ Building
    /\ CurLine = <<>>
    /\ idx' = idx + 1
    /\ UNCHANGED <<code_str, circle_res, pc, zones, zone_order, err, zh, last, tracking>>

SyntaxFail ==
    /\ Building
    /\ CurLine # <<>>
    /\ ~CurMatch.ok
    /\ idx' = idx + 1
    /\ err' = Raise("SyntaxError", idx + 1, <<>>)
    /\ pc' = "failed"
    /\ UNCHANGED <<code_str, circle_res, zones, zone_order, zh, last, tracking>>

(* variant: the table is replaced by one that holds the new zone only *)
DefinePolygonFresh ==
    /\ Building
    /\ CurLine # <<>>
    /\ CurMatch.ok
    /\ IsPolygonExpr(CurMatch.expr)
    /\ LET r == PolygonLine(CurMatch.name, CurMatch.expr, idx + 1)
       IN  /\ idx' = idx + 1
           /\ err' = r.err
           /\ IF r.err = NoErr
              THEN /\ zones' = DictSet([n \in {} |-> {}], CurMatch.name, r.shape)
                   /\ zone_order' = <<CurMatch.name>>
                   /\ pc' = "building"
              ELSE /\ UNCHANGED <<zones, zone_order>>
                   /\ pc' = "failed"
           /\ UNCHANGED <<code_str, circle_res, zh, last, tracking>>

(* if-branch of the loop body: a polygon literal *)
DefinePolygon ==
    /\ Building
    /\ CurLine # <<>>
    /\ CurMatch.ok
    /\ IsPolygonExpr(CurMatch.expr)
    /\ Finish(CurMatch.name, PolygonLine(CurMatch.name, CurMatch.expr, idx + 1))

DefineCircle ==
    /\ Building
    /\ CurLine # <<>>
    /\ CurMatch.ok
    /\ ~IsPolygonExpr(CurMatch.expr)
    /\ IsCircleExpr(CurMatch.expr)
    /\ Finish(CurMatch.name, ParseCircle(CurMatch.expr, CurMatch.name, idx + 1, circle_res))

(* variant: the target is bound to the left operand instead of the result *)
DefineSetOpLeft ==
    /\ Building
    /\ CurLine # <<>>
    /\ CurMatch.ok
    /\ ~IsPolygonExpr(CurMatch.expr)
    /\ ~IsCircleExpr(CurMatch.expr)
    /\ LET r == SetOpLine(zones, CurMatch.name, CurMatch.expr, idx + 1)
       IN  Finish(CurMatch.name,
                  IF r.err # NoErr THEN r ELSE Produced(zones[OpMatch(CurMatch.expr).left]))

(* else-branch of the loop body: a set operation on two zones *)
DefineSetOp ==
    /\ Building
    /\ CurLine # <<>>
    /\ CurMatch.ok
    /\ ~IsPolygonExpr(CurMatch.expr)
    /\ ~IsCircleExpr(CurMatch.expr)
    /\ Finish(CurMatch.name, SetOpLine(zones, CurMatch.name, CurMatch.expr, idx + 1))

(* __init__ returns: the caller's variable is bound to the new handler *)
Return ==
    /\ pc = "building"
    /\ idx = Len(Lines(code_str))
    /\ pc' = "ready"
    /\ zh' = "ZonesHandler"
    /\ UNCHANGED <<code_str, circle_res, idx, zones, zone_order, err, last, tracking>>

(***************************************************************************)
(* The query methods of a handler the caller holds                         *)
(***************************************************************************)
(* the points the caller asks about: those of the triangulation on the *)
(* diagonal from (0, 0) to (QueryMax, QueryMax)                        *)
QueryPoints == {p \in Corners \cup Centres : p[1] = p[2] /\ p[1] <= 2 * QueryMax}
QueryNames == {<<"a">>, <<"b">>, <<"c">>, <<"d">>}

(* shared: the value is the very object the handler holds, not a copy *)
NoCall == [call |-> "none", arg |-> <<>>, raised |-> FALSE, value |-> <<>>, shared |-> FALSE]

(* variant: a missing zone gives a default result instead of an exception *)
KeyErrorDefault(call, name) ==
    [call |-> call, arg |-> name, raised |-> FALSE, value |-> <<>>, shared |-> FALSE]

KeyError(call, name) ==
    [call |-> call, arg |-> name, raised |-> TRUE, value |-> <<>>, shared |-> FALSE]
Returned(call, name, v) ==
    [call |-> call, arg |-> name, raised |-> FALSE, value |-> v, shared |-> FALSE]

(* variant: geom.contains(Point(pt)), true in the interior only *)
CoversProperly(g, pt) ==
    /\ {pt} \in g
    /\ Cardinality({t \in g : Dim(t) = 2 /\ pt \in t}) = (IF pt \in Corners THEN 8 ELSE 4)

(* geom.covers(Point(pt)) for a point of the triangulation *)
Covers(g, pt) == {pt} \in g

(* the third corners of the two triangles on either side of a segment *)
Apexes(c) ==
    LET p == CHOOSE v \in c : TRUE
        q == CHOOSE v \in c \ {p} : TRUE
    IN  IF p[1] = q[1]
        THEN {<<p[1] - 1, (p[2] + q[2]) \div 2>>, <<p[1] + 1, (p[2] + q[2]) \div 2>>}
        ELSE IF p[2] = q[2]
        THEN {<<(p[1] + q[1]) \div 2, p[2] - 1>>, <<(p[1] + q[1]) \div 2, p[2] + 1>>}
        ELSE LET k == IF p[1] % 2 = 0 THEN p ELSE q      \* the corner
                 m == IF p[1] % 2 = 0 THEN q ELSE p      \* the centre
             IN  {<<k[1], 2 * m[2] - k[2]>>, <<2 * m[1] - k[1], k[2]>>}

(* the segments that count for geom.length: those on the boundary of the *)
(* area (in one triangle of g) and free-standing ones (in none)          *)
LengthCells(g) ==
    {c \in g : Dim(c) = 1 /\ Cardinality({r \in Apexes(c) : c \cup {r} \in g}) <= 1}

IsAxisCell(c) == \E p \in c : \E q \in c : p # q /\ (p[1] = q[1] \/ p[2] = q[2])

(* geom.length as <<unit segments, half diagonals>> *)
Length(g) ==
    <<Cardinality({c \in LengthCells(g) : IsAxisCell(c)}),
      Cardinality({c \in LengthCells(g) : ~IsAxisCell(c)})>>

(* geom.bounds in doubled coordinates; the empty geometry has none *)
Bounds(g) ==
    IF g = {} THEN <<>>
    ELSE LET P == UNION g
             xs == {p[1] : p \in P}
             ys == {p[2] : p \in P}
             Lo(S) == CHOOSE m \in S : \A n \in S : m <= n
             Hi(S) == CHOOSE m \in S : \A n \in S : m >= n
         IN  <<Lo(xs), Lo(ys), Hi(xs), Hi(ys)>>

(* if zone_name not in self.zones: raise KeyError *)
Missing(zs, name) == name \notin DOMAIN zs

InZone(zs, name, pt) ==
    IF Missing(zs, name) THEN KeyError("in_zone", name)
    ELSE Returned("in_zone", name, <<pt, Covers(zs[name], pt)>>)

(* variant: the length of the boundary is returned *)
GetAreaAsLength(zs, name) ==
    IF Missing(zs, name) THEN KeyError("get_area", name)
    ELSE Returned("get_area", name, <<Length(zs[name])[1] + Length(zs[name])[2]>>)

GetArea(zs, name) ==
    IF Missing(zs, name) THEN KeyError("get_area", name)
    ELSE Returned("get_area", name, <<Area4(zs[name])>>)

GetPerimeter(zs, name) ==
    IF Missing(zs, name) THEN KeyError("get_perimeter", name)
    ELSE Returned("get_perimeter", name, Length(zs[name]))

GetBounds(zs, name) ==
    IF Missing(zs, name) THEN KeyError("get_bounds", name)
    ELSE Returned("get_bounds", name, Bounds(zs[name]))

Query(result) ==
    /\ zh = "ZonesHandler"
    /\ last' = result
    /\ UNCHANGED <<code_str, circle_res, pc, idx, zones, zone_order, err, zh, tracking>>

in_zone == \E name \in QueryNames : \E pt \in QueryPoints : Query(InZone(zones, name, pt))

(* variant: the handler's own list of names is handed out *)
GetZonesView(order) ==
    [call |-> "get_zones", arg |-> <<>>, raised |-> FALSE, value |-> order, shared |-> TRUE]

(* list(self.zones.keys()): a new list of the keys in their order *)
GetZones(order) ==
    [call |-> "get_zones", arg |-> <<>>, raised |-> FALSE, value |-> order, shared |-> FALSE]

get_zones == Query(GetZones(zone_order))

(* the caller changes the list get_zones returned (pop or append); only *)
(* a shared list would carry the change into the handler                *)
MutateReturned ==
    /\ zh = "ZonesHandler"
    /\ last.call = "get_zones"
    /\ \E new \in {Append(last.value, <<"d">>)} \cup
                  {SubSeq(last.value, 1, Len(last.value) - 1) : k \in {1} \cap 1..Len(last.value)} :
          /\ last' = [last EXCEPT !.call = "list_mutation", !.value = new]
          /\ zone_order' = IF last.shared THEN new ELSE zone_order
    /\ UNCHANGED <<code_str, circle_res, pc, idx, zones, err, zh, tracking>>

get_area == \E name \in QueryNames : Query(GetArea(zones, name))

get_perimeter == \E name \in QueryNames : Query(GetPerimeter(zones, name))

get_bounds == \E name \in QueryNames : Query(GetBounds(zones, name))

(***************************************************************************)
(* The callback update_zones of callbacks/zone_callbacks.py                *)
(***************************************************************************)
(* the four outputs: the figure (whether it has the layout image, and  *)
(* one entry per drawn zone with the area and the perimeter of its     *)
(* annotation), the text of the alert, whether the alert is open, and  *)
(* the stored data (None is the empty sequence)                        *)
Outputs(fig, msg, open, stored) ==
    [figure |-> fig, message |-> msg, is_open |-> open, data |-> stored]

(* the figure {} *)
NoFigure == [layout_image |-> FALSE, traces |-> <<>>]

(* the handler the callback builds: the constructor run on the whole *)
(* source, with the shapes in the triangulation of the resolution    *)
AtResolution(r, res) ==
    IF r.err # NoErr \/ res = 1 THEN r ELSE Produced(Refine(r.shape))

(* the loop body for the stripped, non-empty line i *)
HandlerLine(zs, line, i, res) ==
    LET m == AssignMatch(line)
    IN  IF ~m.ok THEN Failed(Raise("SyntaxError", i, <<>>))
        ELSE IF IsPolygonExpr(m.expr)
             THEN AtResolution(PolygonLine(m.name, m.expr, i), res)
        ELSE IF IsCircleExpr(m.expr) THEN ParseCircle(m.expr, m.name, i, res)
        ELSE SetOpLine(zs, m.name, m.expr, i)

(* the loop from line i on: failed with the error of the first line *)
(* that raises, or the table and the order of its keys; r is what   *)
(* the loop body gives for line i                                   *)
RECURSIVE HandlerLoop(_, _, _, _, _)
HandlerLoop(lines, i, zs, order, res) ==
    IF i > Len(lines)
    THEN [failed |-> FALSE, err |-> NoErr, zones |-> zs, order |-> order]
    ELSE IF StripComment(lines[i]) = <<>>
    THEN HandlerLoop(lines, i + 1, zs, order, res)
    ELSE CHOOSE h \in
           { IF r.err # NoErr
             THEN [failed |-> TRUE, err |-> r.err, zones |-> zs, order |-> order]
             ELSE HandlerLoop(lines, i + 1,
                              DictSet(zs, AssignMatch(StripComment(lines[i])).name, r.shape),
                              DictOrder(order, zs, AssignMatch(StripComment(lines[i])).name),
                              res)
             : r \in {HandlerLine(zs, StripComment(lines[i]), i, res)} } : TRUE

(* ZonesHandler(code, circle_resolution=res) *)
ZonesHandler(code, res) == HandlerLoop(Lines(code), 1, [n \in {} |-> {}], <<>>, res)

(* the measures of the cells of the refined triangulation, in units of   *)
(* 2^-24, which a float holds exactly: a triangle is a quarter of a unit  *)
(* square; a half cap is an eighth of what the 512-gon of area            *)
(* 256 sin(pi/256) has more than the inscribed square of area 2; a        *)
(* segment is a side of a unit square, a half diagonal, the part of a     *)
(* half diagonal inside or outside the ring, or an eighth of the ring of  *)
(* length 1024 sin(pi/512)                                                *)
FineUnit == 16777216
IsRingVertex(p) == p[1] % Scale # 0
IsCentre(p) == p[1] % (2 * Scale) = Scale
QuarterArea == 4194304
CapArea == 2393928
UnitSide == 16777216
HalfDiagonal == 11863283
CapRadial == 4913933
CapDiagonal == 6949350
ArcLength == 13176712

(* geom.area of a geometry of the refined triangulation *)
AreaFine(g) ==
    LET T == {c \in g : Dim(c) = 2}
        cut == {c \in T : \E p \in c : IsRingVertex(p)}
        inner == {c \in cut : \E p \in c : IsCentre(p)}
    IN  QuarterArea * Cardinality(T \ inner)
        + CapArea * (2 * Cardinality(inner) - Cardinality(cut))

SegmentFine(c) ==
    LET p == CHOOSE x \in c : \A y \in c : IsRingVertex(y) => y = x
        q == CHOOSE x \in c : x # p
        dx == p[1] - q[1]
        dy == p[2] - q[2]
    IN  IF ~IsRingVertex(p)
        THEN IF dx = 0 \/ dy = 0 THEN UnitSide ELSE HalfDiagonal
        ELSE IF IsCentre(q) THEN CapRadial
        ELSE IF dx * dx = dy * dy THEN CapDiagonal ELSE ArcLength

Coarse(p) == <<p[1] \div Scale, p[2] \div Scale>>

(* the third corners a triangle of the refined triangulation on the *)
(* segment c can have                                               *)
ApexesFine(c) ==
    LET cut == {a \in Arcs : RingVertex(a[1], a[2]) \in c}
    IN  IF cut = {}
        THEN {Fine(r) : r \in Apexes({Coarse(p) : p \in c})}
             \cup {RingVertex(a[1], a[2]) : a \in Arcs}
        ELSE (UNION { {Fine(r) : r \in {SquareCentre(a[1], a[2]), FarCorner(a[1], a[2])}
                                       \cup AxisCorners(a[1], a[2])} : a \in cut }) \ c

(* the segments that count for geom.length: in at most one triangle *)
LengthCellsFine(g) ==
    {c \in g : Dim(c) = 1 /\ Cardinality({r \in ApexesFine(c) : c \cup {r} \in g}) <= 1}

(* geom.length of a geometry of the refined triangulation *)
LengthFine(g) ==
    LET L == LengthCellsFine(g)
        N(len) == Cardinality({c \in L : SegmentFine(c) = len})
    IN  UnitSide * N(UnitSide) + HalfDiagonal * N(HalfDiagonal)
        + CapRadial * N(CapRadial) + CapDiagonal * N(CapDiagonal)
        + ArcLength * N(ArcLength)

(* f"{v:.2f}" of the float holding v units of 2^-24: the number of    *)
(* hundredths nearest to it, the even one of the two when it is halfway *)
Hundredths(v) ==
    LET n == 100 * (v % FineUnit)
        h == 100 * (v \div FineUnit) + n \div FineUnit
        rest == 2 * (n % FineUnit)
    IN  IF rest > FineUnit \/ (rest = FineUnit /\ h % 2 = 1) THEN h + 1 ELSE h

(* make_annotation of one zone: the name and the numbers of the text *)
(* f"Area: {area:.2f} | Perimeter: {per:.2f}", in hundredths         *)
Annotation(zs, name) ==
    <<name, Hundredths(AreaFine(zs[name])), Hundredths(LengthFine(zs[name]))>>

(* variant: the except branch stores the zones built before the error *)
UpdateZonesStorePartial(n_clicks, code, failed, e, zs, order, raises, image) ==
    IF n_clicks = 0
    THEN Outputs(NoFigure, NoErr, FALSE, <<>>)
    ELSE IF failed
    THEN Outputs(NoFigure, e, TRUE, <<code, order>>)
    ELSE IF order = <<>>
    THEN Outputs(NoFigure, Raise("NoZones", 0, <<>>), TRUE, <<>>)
    ELSE IF raises
    THEN Outputs(NoFigure, e, TRUE, <<code, order>>)
    ELSE Outputs([layout_image |-> image,
                  traces |-> [i \in 1..Len(order) |-> Annotation(zs, order[i])]],
                 NoErr, FALSE, <<code, order>>)

(* the callback: no click gives the empty outputs; failed, the         *)
(* constructor raised e; raises, a later statement of the try block    *)
(* raised e; image, the figure gets the background image               *)
UpdateZones(n_clicks, code, failed, e, zs, order, raises, image) ==
    IF n_clicks = 0
    THEN Outputs(NoFigure, NoErr, FALSE, <<>>)
    ELSE IF failed
    THEN Outputs(NoFigure, e, TRUE, <<>>)
    ELSE IF order = <<>>
    THEN Outputs(NoFigure, Raise("NoZones", 0, <<>>), TRUE, <<>>)
    ELSE IF raises
    THEN Outputs(NoFigure, e, TRUE, <<>>)
    ELSE Outputs([layout_image |-> image,
                  traces |-> [i \in 1..Len(order) |-> Annotation(zs, order[i])]],
                 NoErr, FALSE, <<code, order>>)

(* min(b[0] for b in bounds) over the boxes of the zones: a zone with *)
(* no box gives an empty tuple, whose element 0 does not exist, or a  *)
(* tuple of NaN, which min accepts, according to the shapely release  *)
BoundsMayRaise(zs, order) ==
    IF \E i \in 1..Len(order) : GetBounds(zs, order[i]).value = <<>>
    THEN BOOLEAN ELSE {FALSE}

(* the stored background image: none, the data URL of an image, or a *)
(* string get_image_size_from_base64 cannot split or decode          *)
BackgroundImages == {"None", "image", "malformed"}

(* the errors of the try block after get_zones, in the order of the  *)
(* statements: the error of min over the boxes, then the error of    *)
(* get_image_size_from_base64; NoErr when no statement raises        *)
LaterErrors(zs, order, background_image) ==
    { IF boundsRaise THEN Raise("IndexError", 0, <<>>)
      ELSE IF background_image = "malformed" THEN Raise("ValueError", 0, <<>>)
      ELSE NoErr : boundsRaise \in BoundsMayRaise(zs, order) }

(* one of the first k lines of the source is a circle line that was *)
(* accepted: a circle has been buffered                             *)
CircleBuilt(code, k, failed) ==
    \E i \in 1..k :
        LET line == StripComment(Lines(code)[i])
            m == AssignMatch(line)
        IN  /\ line # <<>> /\ m.ok
            /\ ~IsPolygonExpr(m.expr) /\ IsCircleExpr(m.expr)
            /\ ~(failed /\ i = k)

(* ZonesHandler(zone_code, circle_resolution=128) for the source of this *)
(* behaviour.  The resolution is used by the buffer alone: when no       *)
(* circle has been buffered, the constructor of the callback has done    *)
(* what the one of this behaviour did, and its table is this             *)
(* behaviour's, in the refined triangulation                             *)
CallbackHandler ==
    IF CircleBuilt(code_str, idx, pc = "failed")
    THEN ZonesHandler(code_str, CallbackResolution)
    ELSE [failed |-> pc = "failed", err |-> err,
          zones |-> [n \in DOMAIN zones |-> Refine(zones[n])], order |-> zone_order]

(* the callback for the source of this behaviour: the constructor it *)
(* called has left its loop, and the handler is the callback's own   *)
update_zones ==
    /\ ~Building
    /\ zh = "none"
    /\ \E h \in {CallbackHandler} :
           \E n_clicks \in {0, 1} : \E background_image \in BackgroundImages :
           \E e \in (IF h.failed THEN {h.err}
                     ELSE LaterErrors(h.zones, GetZones(h.order).value, background_image)) :
              last' = [call |-> "update_zones",
                       arg |-> <<IF n_clicks = 0 THEN "no click" ELSE "click">>,
                       raised |-> n_clicks # 0 /\ h.order # <<>> /\ ~h.failed /\ e # NoErr,
                       value |-> UpdateZones(n_clicks, code_str, h.failed, e,
                                             h.zones, GetZones(h.order).value,
                                             e # NoErr, background_image = "image"),
                       shared |-> FALSE]
    /\ UNCHANGED <<code_str, circle_res, pc, idx, zones, zone_order, err, zh, tracking>>

(* the callback of the clear button: a click puts the empty text into  *)
(* the zone definition input, without a click the input is not updated; *)
(* value, the text the input has afterwards.  As update_zones, it is    *)
(* called when no constructor is at work and no caller holds a handler; *)
(* the constructor update_zones calls next reads the new text from its  *)
(* first line                                                           *)
clear_zone_definition ==
    /\ ~Building
    /\ zh = "none"
    /\ \E n_clicks \in {0, 1} :
          IF n_clicks # 0
          THEN /\ code_str' = <<>>
               /\ pc' = "building"
               /\ idx' = 0
               /\ zones' = [n \in {} |-> {}]
               /\ zone_order' = <<>>
               /\ err' = NoErr
               /\ zh' = "none"
               /\ last' = [call |-> "clear_zone_definition", arg |-> <<"click">>,
                           raised |-> FALSE, value |-> <<>>, shared |-> FALSE]
               /\ UNCHANGED <<circle_res, tracking>>
          ELSE /\ last' = [call |-> "clear_zone_definition", arg |-> <<"no click">>,
                           raised |-> FALSE, value |-> code_str, shared |-> FALSE]
               /\ UNCHANGED <<code_str, circle_res, pc, idx, zones, zone_order, err, zh, tracking>>

(***************************************************************************)
(* The sources                                                             *)
(***************************************************************************)
Asg(name, expr) == name \o <<" ", "=", " ">> \o expr
Bin(l, op, r) == l \o <<" ", op, " ">> \o r
A == <<"a">>
B == <<"b">>
C == <<"c">>
D == <<"d">>

(* each menu is a set of lines; a source joins lines of one menu *)
Menus == {
    \* names and references
    { Asg(A, <<"[sqA]">>), Asg(B, <<"[sqB]">>), Asg(A, <<"[big]">>),
      Asg(C, Bin(A, "U", B)), Asg(C, Bin(A, "U", D)), <<"c", "=", "c", "-", "a">>,
      Asg(B, <<"(cir)">>) },
    \* blank lines, comments and malformed lines
    { <<>>, <<" ", " ">>, <<" ", "#", "a">>, Asg(A, <<"[sqA]">>) \o <<" ", "#", "b">>,
      <<"a", " ", "b">>, Asg(C, A), Asg(B, Bin(A, "I", A)), Asg(B, <<"(neg)">>) },
    \* results of set operations
    { Asg(A, <<"[sqA]">>), Asg(B, <<"[sqB]">>), Asg(B, <<"[sqC]">>), Asg(B, <<"[tri]">>),
      Asg(C, Bin(A, "I", B)), Asg(C, Bin(A, "-", A)), Asg(C, Bin(A, "^", B)),
      Asg(C, Bin(C, "-", A)) },
    \* polygon literals: rings
    { Asg(A, <<"[sqA]">>), Asg(A, <<"[bow]">>), Asg(A, <<"[bw2]">>), Asg(A, <<"[col]">>), Asg(A, <<"[]">>),
      Asg(C, Bin(<<"[sqA]">>, "U", A)) },
    \* polygon literals: values that are not lists of pairs of numbers
    { Asg(A, <<"[sqA]">>), Asg(B, <<"[two]">>), Asg(B, <<"[one]">>), Asg(B, <<"[str]">>),
      Asg(B, <<"[trp]">>), Asg(B, <<"[num]">>) },
    \* circle literals: radii
    { Asg(A, <<"(cir)">>), Asg(A, <<"(r0)">>), Asg(A, <<"(neg)">>),
      Asg(C, Bin(<<"(cir)">>, "U", <<"(cir)">>)), Asg(C, Bin(A, "I", B)) },
    \* circle literals: values that are not triples of numbers
    { Asg(A, <<"(cir)">>), Asg(B, <<"(two)">>), Asg(B, <<"(four)">>), Asg(B, <<"(str)">>),
      Asg(B, <<"(tru)">>) },
    \* chains of operands
    { Asg(A, <<"[sqA]">>), Asg(C, Bin(A, "U", A)), Asg(C, Bin(Bin(A, "U", A), "U", A)) } }

(* '\n'.join(lines) *)
RECURSIVE Join(_)
Join(ls) ==
    IF ls = <<>> THEN <<>>
    ELSE IF Len(ls) = 1 THEN ls[1]
         ELSE ls[1] \o <<"\n">> \o Join(Tail(ls))

(* two zones a and b, then distinct lines that combine them: the pairs  *)
(* overlap,                                                             *)
(* nest (b touching the border of a, b strictly inside a), share an    *)
(* edge, share a corner, or are disjoint                                *)
Pairs == {
    <<Asg(A, <<"[big]">>), Asg(B, <<"(cir)">>)>>,
    <<Asg(A, <<"[s04]">>), Asg(B, <<"[s26]">>)>>,
    <<Asg(A, <<"[s04]">>), Asg(B, <<"[sqC]">>)>>,
    <<Asg(A, <<"[sqA]">>), Asg(B, <<"[sqB]">>)>>,
    <<Asg(A, <<"[sqA]">>), Asg(B, <<"[sqC]">>)>>,
    <<Asg(A, <<"[sqA]">>), Asg(B, <<"[tri]">>)>> }

Combinations ==
    { Asg(C, Bin(A, "U", B)), Asg(D, Bin(A, "I", B)),
      Asg(<<"c", "c">>, Bin(A, "^", B)), Asg(<<"d", "d">>, Bin(A, "-", B)) }

Sources ==
    UNION { {Join(ls) : ls \in UNION {[1..n -> menu] : n \in 0..MaxLines}} : menu \in Menus }
    \cup { Join(pre \o ls) :
             pre \in Pairs,
             ls \in {l \in UNION {[1..n -> Combinations] : n \in 0..MaxLines} :
                       \A i \in 1..Len(l) : \A j \in 1..Len(l) : l[i] = l[j] => i = j} }

CircleResolutions == {1}

(***************************************************************************)
(* Tracking data: callbacks/discontinuity_callbacks.py and                 *)
(* utils/data_processing.py                                                *)
(***************************************************************************)
(* A data set is the list of frames; a frame is the list under its key   *)
(* 'bodyparts': one list per animal of entries [x, y, confidence].       *)
(* Indices are those of the code, from 0.  Confidences are in            *)
(* hundredths; positions are multiples of Unit, which every number of    *)
(* frames the interpolation divides by divides twice over.               *)
NaN == 0 - 1000000
IsNaN(v) == v = NaN
(* a comparison with NaN is false *)
Lt(v, w) == ~IsNaN(v) /\ ~IsNaN(w) /\ v < w
Lost == 0 - 100
LowConfidence == 50
DefaultThreshold == 50
InterpConfidence == 51
DefaultMaxGap == 10
Unit == 60 * 60

Entry(frames, f, a, b) == frames[f + 1][a + 1][b + 1]
NumFrames(frames) == Len(frames)
NumAnimals(frames) == IF frames = <<>> THEN 0 ELSE Len(frames[1])
NumBodyparts(frames) ==
    IF NumAnimals(frames) = 0 THEN 0 ELSE Len(frames[1][1])

RECURSIVE Flatten(_)
Flatten(ss) == IF ss = <<>> THEN <<>> ELSE Head(ss) \o Flatten(Tail(ss))

(* detect_discontinuities: the test of one frame in the first pass (b is *)
(* -1: some body part has confidence -1) and in the pass of body part b  *)
(* (x or y is NaN)                                                       *)
IsDiscontinuity(frames, a, b, f) ==
    IF b = 0 - 1
    THEN \E bp \in 0..(NumBodyparts(frames) - 1) : Entry(frames, f, a, bp)[3] = Lost
    ELSE IsNaN(Entry(frames, f, a, b)[1]) \/ IsNaN(Entry(frames, f, a, b)[2])

(* one loop over the frames from frame f on: cur is the start of the     *)
(* current gap, or -1; the frames in skip are passed over; a gap ends at *)
(* the frame before the first frame that is looked at and is no          *)
(* discontinuity, or at the last frame                                   *)
RECURSIVE ScanGaps(_, _, _, _, _, _)
ScanGaps(frames, a, b, skip, f, cur) ==
    IF f = NumFrames(frames)
    THEN IF cur = 0 - 1 THEN <<>> ELSE << <<a, b, cur, NumFrames(frames) - 1>> >>
    ELSE IF f \in skip
    THEN ScanGaps(frames, a, b, skip, f + 1, cur)
    ELSE IF IsDiscontinuity(frames, a, b, f)
    THEN ScanGaps(frames, a, b, skip, f + 1, IF cur = 0 - 1 THEN f ELSE cur)
    ELSE (IF cur = 0 - 1 THEN <<>> ELSE << <<a, b, cur, f - 1>> >>)
         \o ScanGaps(frames, a, b, skip, f + 1, 0 - 1)

(* the body of the loop over the selected animals *)
DetectAnimal(frames, a) ==
    LET frame_level_discontinuities == ScanGaps(frames, a, 0 - 1, {}, 0, 0 - 1)
        frame_level_disc_frames ==
            UNION { frame_level_discontinuities[i][3]..frame_level_discontinuities[i][4] :
                    i \in 1..Len(frame_level_discontinuities) }
    IN  frame_level_discontinuities
        \o Flatten([k \in 1..NumBodyparts(frames) |->
                      ScanGaps(frames, a, k - 1, frame_level_disc_frames, 0, 0 - 1)])

(* detect_discontinuities; no selection (None or []) is the empty sequence *)
DetectDiscontinuities(frames, selected_animals) ==
    IF frames = <<>> THEN <<>>
    ELSE LET sel == IF selected_animals = <<>>
                    THEN [i \in 1..NumAnimals(frames) |-> i - 1]
                    ELSE selected_animals
         IN  Flatten([i \in 1..Len(sel) |->
                        IF sel[i] >= NumAnimals(frames) THEN <<>>
                        ELSE DetectAnimal(frames, sel[i])])

(* not (np.isnan(x) or np.isnan(y) or conf == -1) *)
IsValidPoint(e) == ~(IsNaN(e[1]) \/ IsNaN(e[2]) \/ e[3] = Lost)

(* the two while loops: the frame where the search stops, -1 or the *)
(* number of frames when it finds no valid point                    *)
SearchBefore(frames, a, b, f) ==
    LET S == {g \in 0..f : IsValidPoint(Entry(frames, g, a, b))}
    IN  IF S = {} THEN 0 - 1 ELSE CHOOSE g \in S : \A h \in S : h <= g
SearchAfter(frames, a, b, f) ==
    LET S == {g \in f..(NumFrames(frames) - 1) : IsValidPoint(Entry(frames, g, a, b))}
    IN  IF S = {} THEN NumFrames(frames) ELSE CHOOSE g \in S : \A h \in S : g <= h

(* the interpolated coordinate of frame_idx between the values before *)
(* and after, for the frames before_frame and after_frame             *)
Interpolate(method, before, after, frame_idx, before_frame, after_frame) ==
    IF method = "linear"
    THEN before + ((frame_idx - before_frame) * (after - before)) \div (after_frame - before_frame)
    ELSE IF frame_idx - before_frame <= after_frame - frame_idx THEN before ELSE after

InterpolatedEntry(method, pb, pa, frame_idx, before_frame, after_frame, conf) ==
    << Interpolate(method, pb[1], pa[1], frame_idx, before_frame, after_frame),
       Interpolate(method, pb[2], pa[2], frame_idx, before_frame, after_frame),
       conf >>

(* np.isnan(curr_x) or np.isnan(curr_y) or curr_conf < 0.5 *)
NeedsFix(e) == IsNaN(e[1]) \/ IsNaN(e[2]) \/ Lt(e[3], LowConfidence)

(* the branch bodypart_idx == -1: every body part of the frames of the  *)
(* gap that has a valid point before and after is written; the values   *)
(* are those of the frames the searches stop at, the progress is        *)
(* counted between the frames next to the gap                           *)
FixFrameLevel(frames, d, method, conf) ==
    LET a == d[1]
        start == d[3]
        end == d[4]
        fb(b) == SearchBefore(frames, a, b, start - 1)
        fa(b) == SearchAfter(frames, a, b, end + 1)
        found(b) == fb(b) >= 0 /\ fa(b) < NumFrames(frames)
    IN  [f \in 1..Len(frames) |->
          [an \in 1..Len(frames[f]) |->
            [bp \in 1..Len(frames[f][an]) |->
               IF an - 1 = a /\ f - 1 \in start..end /\ found(bp - 1)
               THEN InterpolatedEntry(method,
                                      Entry(frames, fb(bp - 1), a, bp - 1),
                                      Entry(frames, fa(bp - 1), a, bp - 1),
                                      f - 1, start - 1, end + 1, conf)
               ELSE frames[f][an][bp]]]]

(* the other branch: the frames the searches stop at are before_frame *)
(* and after_frame; a point is written when it needs a fix            *)
FixBodypartLevel(frames, d, method, conf) ==
    LET a == d[1]
        b == d[2]
        start == d[3]
        end == d[4]
        before_frame == SearchBefore(frames, a, b, start - 1)
        after_frame == SearchAfter(frames, a, b, end + 1)
    IN  IF before_frame < 0 \/ after_frame >= NumFrames(frames) THEN frames
        ELSE [f \in 1..Len(frames) |->
               [an \in 1..Len(frames[f]) |->
                 [bp \in 1..Len(frames[f][an]) |->
                    IF an - 1 = a /\ bp - 1 = b /\ f - 1 \in start..end
                       /\ NeedsFix(frames[f][an][bp])
                    THEN InterpolatedEntry(method,
                                           Entry(frames, before_frame, a, b),
                                           Entry(frames, after_frame, a, b),
                                           f - 1, before_frame, after_frame, conf)
                    ELSE frames[f][an][bp]]]]

(* whether the loop body reaches one of the two branches *)
Handled(frames, d, max_gap) ==
    /\ d[4] - d[3] + 1 <= max_gap
    /\ d[3] - 1 >= 0
    /\ d[4] + 1 < NumFrames(frames)

(* one turn of the loop over the discontinuities *)
FixOne(frames, d, method, max_gap, conf) ==
    IF ~Handled(frames, d, max_gap) THEN frames
    ELSE IF d[2] = 0 - 1 THEN FixFrameLevel(frames, d, method, conf)
    ELSE FixBodypartLevel(frames, d, method, conf)

(* the frames after the first k turns of the loop *)
RECURSIVE FixedUpTo(_, _, _, _, _, _)
FixedUpTo(frames, ds, k, method, max_gap, conf) ==
    IF k = 0 THEN frames
    ELSE FixOne(FixedUpTo(frames, ds, k - 1, method, max_gap, conf), ds[k],
                method, max_gap, conf)

(* frame_fixed, points_fixed: the turn wrote a point *)
WritesPoint(frames, d, method, max_gap) ==
    /\ Handled(frames, d, max_gap)
    /\ IF d[2] = 0 - 1
       THEN \E b \in 0..(NumBodyparts(frames) - 1) :
               /\ SearchBefore(frames, d[1], b, d[3] - 1) >= 0
               /\ SearchAfter(frames, d[1], b, d[4] + 1) < NumFrames(frames)
       ELSE /\ SearchBefore(frames, d[1], d[2], d[3] - 1) >= 0
            /\ SearchAfter(frames, d[1], d[2], d[4] + 1) < NumFrames(frames)
            /\ \E f \in d[3]..d[4] : NeedsFix(Entry(frames, f, d[1], d[2]))

(* fix_data_discontinuities: the processed data and the two counts *)
FixDataDiscontinuities(frames, ds, method, max_gap, conf) ==
    [ data |-> FixedUpTo(frames, ds, Len(ds), method, max_gap, conf),
      fixed_discontinuities |->
          Cardinality({k \in 1..Len(ds) :
              WritesPoint(FixedUpTo(frames, ds, k - 1, method, max_gap, conf),
                          ds[k], method, max_gap)}),
      max_gap_found |->
          LET sizes == {ds[k][4] - ds[k][3] + 1 : k \in 1..Len(ds)} \cup {0}
          IN  CHOOSE m \in sizes : \A n \in sizes : n <= m ]

(* frame.copy() copies the dict of a frame and not the lists under its *)
(* key 'bodyparts': a point written in the copy is written in the      *)
(* caller's frame                                                      *)
WrittenThrough(frames, copy) ==
    [f \in 1..Len(frames) |->
      [an \in 1..Len(frames[f]) |->
         IF an <= Len(copy[f]) THEN copy[f][an] ELSE frames[f][an]]]

(* filter_data: the list under 'data'; no selection (None or []) is {} *)
FilterData(frames, num_animals, confidence_threshold, selected_bodyparts) ==
    [f \in 1..Len(frames) |->
      [an \in 1..(IF num_animals < Len(frames[f]) THEN num_animals ELSE Len(frames[f])) |->
        [bp \in 1..Len(frames[f][an]) |->
           IF \/ Lt(frames[f][an][bp][3], confidence_threshold)
              \/ (selected_bodyparts # {} /\ bp - 1 \notin selected_bodyparts)
           THEN <<NaN, NaN, NaN>>
           ELSE frames[f][an][bp]]]]

(* the calls of one session: the data is loaded, the discontinuities *)
(* are detected and fixed, the data is filtered; the frames of the   *)
(* processed data are shallow copies of the caller's frames, and the *)
(* filter is given the processed data when there is one              *)
NoArgs == [method |-> "", max_gap |-> 0, num_animals |-> 0,
           confidence_threshold |-> 0, selected_bodyparts |-> {},
           selected_animals |-> <<>>]

detect_discontinuities ==
    /\ dpc = "loaded"
    /\ \E sel \in {<<>>, <<0>>, <<1, 2>>} :
          /\ discontinuities' = DetectDiscontinuities(raw_data, sel)
          /\ args' = [NoArgs EXCEPT !.selected_animals = sel]
    /\ dpc' = "detected"
    /\ UNCHANGED <<raw_data, processed_data, filtered_data>>
    /\ UNCHANGED zoning

fix_data_discontinuities ==
    /\ dpc = "detected"
    /\ \E method \in {"linear", "nearest"} : \E max_gap \in {1, DefaultMaxGap} :
          LET r == FixDataDiscontinuities(raw_data, discontinuities, method, max_gap,
                                          InterpConfidence)
          IN  /\ processed_data' = r
              /\ raw_data' = WrittenThrough(raw_data, r.data)
              /\ args' = [NoArgs EXCEPT !.method = method, !.max_gap = max_gap]
    /\ dpc' = "processed"
    /\ UNCHANGED <<discontinuities, filtered_data>>
    /\ UNCHANGED zoning

filter_data ==
    /\ dpc \in {"loaded", "processed"}
    /\ \E num_animals \in 1..2 : \E selected \in {{}, {0}, {0, 1}} :
          LET data_to_use == IF dpc = "processed" THEN processed_data.data ELSE raw_data
              r == FilterData(data_to_use, num_animals, DefaultThreshold, selected)
          IN  /\ filtered_data' = r
              /\ raw_data' = WrittenThrough(raw_data, r)
              /\ processed_data' =
                    IF dpc = "processed"
                    THEN [processed_data EXCEPT !.data = WrittenThrough(processed_data.data, r)]
                    ELSE processed_data
              /\ args' = [NoArgs EXCEPT !.num_animals = num_animals,
                                        !.confidence_threshold = DefaultThreshold,
                                        !.selected_bodyparts = selected]
    /\ dpc' = "filtered"
    /\ UNCHANGED discontinuities
    /\ UNCHANGED zoning

(* the frames of the data sets: two animals with two body parts each; *)
(* v a valid point, w a point of low confidence, l a point of         *)
(* confidence -1                                                      *)
PtValid(x, y) == <<x * Unit, y * Unit, 90>>
PtLow(x, y) == <<x * Unit, y * Unit, 30>>
PtLost(x, y) == <<x * Unit, y * Unit, Lost>>
PtNaN == <<NaN, NaN, NaN>>

FrameMenu ==
    { << <<PtValid(0, 0), PtValid(1, 0)>>, <<PtValid(0, 1), PtValid(1, 1)>> >>,
      << <<PtValid(2, 0), PtValid(3, 1)>>, <<PtLow(2, 2), PtValid(3, 3)>> >>,
      << <<PtNaN, PtValid(1, 2)>>,         <<PtValid(1, 3), PtNaN>> >>,
      << <<PtValid(4, 2), PtLost(0, 0)>>,  <<PtValid(2, 1), PtValid(2, 3)>> >>,
      << <<PtNaN, PtLost(0, 0)>>,          <<PtLost(0, 0), PtValid(4, 4)>> >>,
      << <<PtLow(3, 0), PtValid(3, 2)>>,   <<PtNaN, PtNaN>> >> }

DataSets == UNION {[1..n -> FrameMenu] : n \in 0..MaxFrames}

NoResult == [data |-> <<>>, fixed_discontinuities |-> 0, max_gap_found |-> 0]

(* no tracking data is loaded *)
NoTracking ==
    /\ raw_data = <<>>
    /\ discontinuities = <<>>
    /\ processed_data = NoResult
    /\ filtered_data = <<>>
    /\ dpc = "none"
    /\ args = NoArgs

(* no zone source is being read *)
NoZoning ==
    /\ code_str = <<>>
    /\ circle_res = 1
    /\ pc = "none"
    /\ idx = 0
    /\ zones = [n \in {} |-> {}]
    /\ zone_order = <<>>
    /\ err = NoErr
    /\ zh = "none"
    /\ last = NoCall

Init ==
    /\ code_str \in Sources
    /\ circle_res \in CircleResolutions
    /\ pc = "building"
    /\ idx = 0
    /\ zones = [n \in {} |-> {}]
    /\ zone_order = <<>>
    /\ err = NoErr
    /\ zh = "none"
    /\ last = NoCall
    /\ NoTracking

Next ==
    \/ SkipLine
    \/ SyntaxFail
    \/ DefinePolygon
    \/ DefineCircle
    \/ DefineSetOp
    \/ Return
    \/ in_zone
    \/ get_zones
    \/ MutateReturned
    \/ get_area
    \/ get_perimeter
    \/ get_bounds
    \/ update_zones
    \/ clear_zone_definition

Spec == Init /\ [][Next]_vars

(* the session on a tracking data set *)
InitData ==
    /\ NoZoning
    /\ raw_data \in DataSets
    /\ discontinuities = <<>>
    /\ processed_data = NoResult
    /\ filtered_data = <<>>
    /\ dpc = "loaded"
    /\ args = NoArgs

NextData ==
    \/ detect_discontinuities
    \/ fix_data_discontinuities
    \/ filter_data

SpecData == InitData /\ [][NextData]_vars

(***************************************************************************)
(* Vocabulary of the properties                                            *)
(***************************************************************************)
(* the i-th line the loop sees, stripped of its comment, and its match *)
LineAt(i) == StripComment(Lines(code_str)[i])
MatchAt(i) == AssignMatch(LineAt(i))
IsDefinition(i) == LineAt(i) # <<>> /\ MatchAt(i).ok
IsPolygonLineAt(i) == IsDefinition(i) /\ IsPolygonExpr(MatchAt(i).expr)
IsCircleLineAt(i) ==
    IsDefinition(i) /\ ~IsPolygonExpr(MatchAt(i).expr) /\ IsCircleExpr(MatchAt(i).expr)
IsSetOpLineAt(i) ==
    IsDefinition(i) /\ ~IsPolygonExpr(MatchAt(i).expr) /\ ~IsCircleExpr(MatchAt(i).expr)

(* line idx has just been processed and did not raise *)
Accepted == pc \in {"building", "ready"} /\ idx >= 1 /\ IsDefinition(idx)

(* the step that processes line idx + 1, a definition *)
Processing == Building /\ idx' = idx + 1 /\ IsDefinition(idx + 1)

(* the number of lines among the first k that define the name n *)
DefCount(n, k) == Cardinality({i \in 1..k : IsDefinition(i) /\ MatchAt(i).name = n})

(* the right-hand side of line i evaluated against the table zs *)
Evaluate(zs, i) ==
    IF IsPolygonLineAt(i) THEN PolygonLine(MatchAt(i).name, MatchAt(i).expr, i)
    ELSE IF IsCircleLineAt(i) THEN ParseCircle(MatchAt(i).expr, MatchAt(i).name, i, circle_res)
    ELSE SetOpLine(zs, MatchAt(i).name, MatchAt(i).expr, i)

(* the lines of the source string as passed, before strip() *)
SourceLines == SplitLines(code_str)

(* the lines of the source string that precede the first line the loop sees *)
LeadingLines == Len(SourceLines) - Len(SplitLines(LStrip(code_str)))

(***************************************************************************)
(* C1                                                                      *)
(***************************************************************************)
(* C1 as stated: in every ready evaluator each bound name was defined by *)
(* exactly one source line (a second definition of a name would have     *)
(* failed instead of rebinding it).                                      *)
C1_DefinedOnce ==
    zh = "ZonesHandler" =>
        \A n \in DOMAIN zones : DefCount(n, Len(Lines(code_str))) = 1

(* C1 as amended: a line whose target name is already bound and whose    *)
(* right-hand side evaluates without error rebinds the name to the new   *)
(* shape; the name keeps its position in the order of names and every    *)
(* other name keeps its shape; a ready evaluator lists each name once.   *)
C1_Rebinds ==
    /\ [][(Processing /\ MatchAt(idx + 1).name \in DOMAIN zones
           /\ Evaluate(zones, idx + 1).err = NoErr)
          => /\ pc' = "building" /\ err' = NoErr
             /\ DOMAIN zones' = DOMAIN zones
             /\ zones'[MatchAt(idx + 1).name] = Evaluate(zones, idx + 1).shape
             /\ \A n \in DOMAIN zones \ {MatchAt(idx + 1).name} : zones'[n] = zones[n]
             /\ zone_order' = zone_order]_vars
    /\ [](zh = "ZonesHandler" =>
            /\ {zone_order[k] : k \in 1..Len(zone_order)} = DOMAIN zones
            /\ Len(zone_order) = Cardinality(DOMAIN zones))

(* a ready evaluator one of whose names was defined twice, with a shape  *)
(* that differs from its first one                                       *)
C1_Witness ==
    /\ zh = "ZonesHandler"
    /\ \E n \in DOMAIN zones :
          /\ DefCount(n, Len(Lines(code_str))) >= 2
          /\ \E i \in 1..Len(Lines(code_str)) :
                /\ IsDefinition(i) /\ MatchAt(i).name = n
                /\ Evaluate([m \in {} |-> {}], i).err = NoErr
                /\ Evaluate([m \in {} |-> {}], i).shape # zones[n]

(***************************************************************************)
(* C2                                                                      *)
(***************************************************************************)
(* C2: a set-operation line with an operand that no earlier line has     *)
(* bound (a forward reference and the target itself included) fails with *)
(* the unknown-zone error naming such an operand, and the table is left  *)
(* as it was: the target is not added.                                   *)
C2_UnknownOperand ==
    [][(Processing /\ IsSetOpLineAt(idx + 1) /\ OpMatch(MatchAt(idx + 1).expr).ok
        /\ ~({OpMatch(MatchAt(idx + 1).expr).left,
              OpMatch(MatchAt(idx + 1).expr).right} \subseteq DOMAIN zones))
       => /\ pc' = "failed"
          /\ err'.kind = "UnknownZone"
          /\ err'.zone \in {OpMatch(MatchAt(idx + 1).expr).left,
                            OpMatch(MatchAt(idx + 1).expr).right} \ DOMAIN zones
          /\ zones' = zones
          /\ zone_order' = zone_order]_vars

(* construction has failed on a line whose right operand is unknown while *)
(* its left operand is bound                                              *)
C2_Witness ==
    /\ pc = "failed" /\ err.kind = "UnknownZone"
    /\ OpMatch(MatchAt(idx).expr).left \in DOMAIN zones
    /\ OpMatch(MatchAt(idx).expr).right \notin DOMAIN zones
    /\ MatchAt(idx).name \notin DOMAIN zones

(***************************************************************************)
(* C3                                                                      *)
(***************************************************************************)
(* C3 as stated: the line number of a construction error is the 1-based  *)
(* position of the offending line among all the lines of the source      *)
(* string, leading blank lines included.                                 *)
C3_LineNumber ==
    (pc = "failed" /\ err.line # 0) => err.line = LeadingLines + idx

(***************************************************************************)
(* C4                                                                      *)
(***************************************************************************)
(* C4: the caller holds a handler only when no line has raised and every *)
(* line of the source is blank or a definition whose name is in the      *)
(* table; when a line raises the caller holds nothing, whatever the      *)
(* table built so far contains.                                          *)
C4_AllOrNothing ==
    /\ zh = "ZonesHandler" =>
          /\ pc = "ready" /\ err = NoErr /\ idx = Len(Lines(code_str))
          /\ \A i \in 1..Len(Lines(code_str)) :
                LineAt(i) = <<>> \/ (IsDefinition(i) /\ MatchAt(i).name \in DOMAIN zones)
    /\ (pc = "failed" \/ err # NoErr) => zh = "none"

(* construction failed after some zones had been put in the table *)
C4_Witness == pc = "failed" /\ DOMAIN zones # {} /\ zh = "none" /\ idx < Len(Lines(code_str))

(***************************************************************************)
(* C5                                                                      *)
(***************************************************************************)
(* C5 as stated: the zone bound by a set-operation line that did not     *)
(* raise has strictly positive area (a result of zero area is rejected   *)
(* and never bound).                                                     *)
C5_PositiveArea ==
    (Accepted /\ IsSetOpLineAt(idx)) => Area4(zones[MatchAt(idx).name]) > 0

(***************************************************************************)
(* C6                                                                      *)
(***************************************************************************)
(* C6 as stated: the zone bound by a polygon-literal line that did not   *)
(* raise comes from a literal of at least 3 coordinate pairs.            *)
C6_ThreeVertices ==
    (Accepted /\ IsPolygonLineAt(idx)) => Len(LiteralEval(MatchAt(idx).expr).items) >= 3

(***************************************************************************)
(* C7                                                                      *)
(***************************************************************************)
(* the value is a list of pairs of numbers *)
NumericPairs(v) ==
    /\ v.kind \in {"list", "tuple"}
    /\ \A k \in 1..Len(v.items) :
          /\ v.items[k].kind \in {"list", "tuple"}
          /\ Len(v.items[k].items) = 2
          /\ \A m \in 1..2 : v.items[k].items[m].kind \in {"int", "bool"}

VerticesOf(v) == [k \in 1..Len(v.items) |-> <<v.items[k].items[1].val, v.items[k].items[2].val>>]

(* two edges of the ring through the vertices, taken in order and closed, *)
(* that are not neighbours have a point in common                         *)
SelfIntersects(pts) ==
    LET r == CloseRing(pts)
        n == Len(r) - 1
    IN  \E i \in 1..n : \E j \in (i + 2)..n :
           /\ ~(i = 1 /\ j = n)
           /\ SegmentsIntersect(r[i], r[i + 1], r[j], r[j + 1])

(* C7: a polygon literal of at least 3 numeric pairs whose ring           *)
(* self-intersects makes the line fail with the invalid-polygon error     *)
(* carrying the number of the line, and the table is left as it was.      *)
C7_SelfIntersection ==
    [][(Processing /\ IsPolygonLineAt(idx + 1)
        /\ NumericPairs(LiteralEval(MatchAt(idx + 1).expr))
        /\ Len(LiteralEval(MatchAt(idx + 1).expr).items) >= 3
        /\ SelfIntersects(VerticesOf(LiteralEval(MatchAt(idx + 1).expr))))
       => /\ pc' = "failed"
          /\ err'.kind = "PolygonInvalid" /\ err'.kind \in ShapeKinds
          /\ err'.line = idx + 1
          /\ zones' = zones /\ zone_order' = zone_order]_vars

(* construction has failed on a self-intersecting polygon literal *)
C7_Witness ==
    /\ pc = "failed" /\ idx >= 1 /\ IsPolygonLineAt(idx)
    /\ NumericPairs(LiteralEval(MatchAt(idx).expr))
    /\ Len(LiteralEval(MatchAt(idx).expr).items) >= 3
    /\ SelfIntersects(VerticesOf(LiteralEval(MatchAt(idx).expr)))
    /\ MatchAt(idx).name \notin DOMAIN zones

(***************************************************************************)
(* C8                                                                      *)
(***************************************************************************)
(* C8 as stated: a line whose expression starts with "[" and whose        *)
(* literal is not a list of pairs of numbers has failed with a shape      *)
(* error that carries the number of the line.                             *)
C8_LiteralValidated ==
    (idx >= 1 /\ IsPolygonLineAt(idx)
     /\ ~NumericPairs(LiteralEval(MatchAt(idx).expr)))
    => (pc = "failed" /\ err.kind \in ShapeKinds /\ err.line = idx)

(***************************************************************************)
(* C9                                                                      *)
(***************************************************************************)
(* the value is three numbers of which the last is positive *)
PositiveCircle(v) ==
    /\ v.kind \in {"list", "tuple"}
    /\ Len(v.items) = 3
    /\ \A k \in 1..3 : v.items[k].kind \in {"int", "bool"}
    /\ v.items[3].val > 0

(* C9: a line whose expression starts with "(" and ends with ")" fails   *)
(* with a shape error and leaves the table as it was, unless its literal *)
(* is three numbers with a positive radius; a circle line that does not  *)
(* raise has a positive radius.                                          *)
C9_CircleLiteral ==
    /\ [][(Processing /\ IsCircleLineAt(idx + 1)
           /\ ~PositiveCircle(LiteralEval(MatchAt(idx + 1).expr)))
          => /\ pc' = "failed"
             /\ err'.kind \in ShapeKinds
             /\ zones' = zones /\ zone_order' = zone_order]_vars
    /\ []((Accepted /\ IsCircleLineAt(idx))
          => /\ PositiveCircle(LiteralEval(MatchAt(idx).expr))
             /\ ~IsEmpty(zones[MatchAt(idx).name]))

(* construction has failed on a circle literal of three numbers whose    *)
(* radius is zero                                                        *)
C9_Witness ==
    /\ pc = "failed" /\ idx >= 1 /\ IsCircleLineAt(idx)
    /\ Len(LiteralEval(MatchAt(idx).expr).items) = 3
    /\ LiteralEval(MatchAt(idx).expr).items[3] = PyInt(0)
    /\ err.kind = "CircleRadius"

(***************************************************************************)
(* C10                                                                     *)
(***************************************************************************)
NamedQueries == {"in_zone", "get_area", "get_perimeter", "get_bounds"}

(* C10: on a handler the caller holds, a call of in_zone, get_area,      *)
(* get_perimeter or get_bounds with a name that is not in the table      *)
(* raises the error naming that zone and changes neither the names, nor  *)
(* their order, nor their shapes; a call with a name of the table made   *)
(* after a failed call returns a value.                                  *)
C10_NotFound ==
    [][(zh = "ZonesHandler" /\ last' # last /\ last'.call \in NamedQueries)
       => /\ zones' = zones /\ zone_order' = zone_order
          /\ last'.arg \notin DOMAIN zones => last'.raised /\ last'.value = <<>>
          /\ (last.raised /\ last'.arg \in DOMAIN zones) =>
                /\ ~last'.raised
                /\ last'.call = "get_area" => last'.value = <<Area4(zones[last'.arg])>>
                /\ last'.call = "get_bounds" => last'.value = Bounds(zones[last'.arg])]_vars

(* a query on a missing name has raised on a handler whose table is not  *)
(* empty                                                                 *)
C10_Witness ==
    /\ zh = "ZonesHandler" /\ last.raised /\ last.call \in NamedQueries
    /\ last.arg \notin DOMAIN zones /\ DOMAIN zones # {}

(* the names the source defines and, for each, the first line defining it *)
DefinedNames == {MatchAt(i).name : i \in {k \in 1..Len(Lines(code_str)) : IsDefinition(k)}}
FirstLineOf(n) ==
    CHOOSE i \in 1..Len(Lines(code_str)) :
        /\ IsDefinition(i) /\ MatchAt(i).name = n
        /\ \A k \in 1..(i - 1) : ~(IsDefinition(k) /\ MatchAt(k).name = n)

(* C11: on a handler built from a source that parsed, get_zones returns  *)
(* the names the lines of the source define, which are the names of the  *)
(* table, each once, ordered by the first line that defines each.        *)
C11_DefinitionOrder ==
    (zh = "ZonesHandler" /\ last.call = "get_zones") =>
        /\ ~last.raised
        /\ {last.value[k] : k \in 1..Len(last.value)} = DefinedNames
        /\ DefinedNames = DOMAIN zones
        /\ \A j \in 1..Len(last.value) : \A k \in 1..Len(last.value) :
              j < k => FirstLineOf(last.value[j]) < FirstLineOf(last.value[k])

(* get_zones has answered on the source of a polygon, a circle and their *)
(* union, one per line                                                   *)
C11_Witness ==
    /\ zh = "ZonesHandler" /\ last.call = "get_zones"
    /\ last.value = <<A, B, C>>
    /\ IsPolygonLineAt(1) /\ IsCircleLineAt(2) /\ IsSetOpLineAt(3)
    /\ Len(Lines(code_str)) = 3

(* C12: once the caller holds the handler, no step (a query that returns *)
(* or raises, or a change the caller makes to a list get_zones returned) *)
(* changes the names of the table, their order or their shapes, and a    *)
(* get_zones that follows such a change still returns the names of the   *)
(* table in the handler's order.                                         *)
C12_ReadOnly ==
    [][zh = "ZonesHandler" =>
          /\ zones' = zones /\ zone_order' = zone_order
          /\ DOMAIN zones' = {zone_order'[k] : k \in 1..Len(zone_order')}
          /\ last'.call = "get_zones" =>
                /\ last'.value = zone_order
                /\ Len(last'.value) = Cardinality(DOMAIN zones)]_vars

(* the caller has changed a list that get_zones returned for a table    *)
(* that is not empty, and the list now differs from the handler's order *)
C12_Witness ==
    /\ zh = "ZonesHandler" /\ last.call = "list_mutation"
    /\ zone_order # <<>> /\ last.value # zone_order

(* the points at which the shapes are compared, and the parts of the    *)
(* set-operation line at position i                                     *)
GridPoints == Corners \cup Centres

(* in_zone of the name n of the table zs at the point pt *)
In(zs, n, pt) == InZone(zs, n, pt).value[2]
OpAt(i) == OpMatch(MatchAt(i).expr)

(* the step that processes line idx + 1, a set operation with the       *)
(* operator op, and binds its target                                    *)
Combines(op) ==
    /\ Processing /\ IsSetOpLineAt(idx + 1) /\ pc' # "failed"
    /\ OpAt(idx + 1).ok /\ OpAt(idx + 1).op = op

(* C13: when a line C = A U B is accepted, in_zone of C at a point is    *)
(* true exactly when in_zone of A or of B (as bound before the line) is; *)
(* when a line C = A I B is accepted, exactly when both are.             *)
C13_UnionIntersection ==
    [][(Combines("U") \/ Combines("I")) =>
          LET n == MatchAt(idx + 1).name
              l == OpAt(idx + 1).left
              r == OpAt(idx + 1).right
              union == OpAt(idx + 1).op = "U"
          IN  \A p \in GridPoints :
                  In(zones', n, p) <=> IF union THEN In(zones, l, p) \/ In(zones, r, p)
                                                ELSE In(zones, l, p) /\ In(zones, r, p)]_vars

(* an intersection of two zones has been bound that has area and is     *)
(* neither of its operands, and some point lies in one operand only     *)
C13_Witness ==
    /\ Accepted /\ IsSetOpLineAt(idx) /\ OpAt(idx).op = "I"
    /\ MatchAt(idx).name \notin {OpAt(idx).left, OpAt(idx).right}
    /\ Area4(zones[MatchAt(idx).name]) > 0
    /\ zones[MatchAt(idx).name] \notin {zones[OpAt(idx).left], zones[OpAt(idx).right]}
    /\ \E p \in GridPoints :
          /\ Covers(zones[OpAt(idx).left], p)
          /\ ~Covers(zones[OpAt(idx).right], p)
          /\ ~Covers(zones[MatchAt(idx).name], p)

(* the triangles around a grid point in the plane: 8 around a corner, *)
(* 4 around a centre                                                  *)
Star(pt) ==
    IF pt \in Corners
    THEN UNION { LET c == <<pt[1] + sx, pt[2] + sy>>
                 IN  {{pt, c, <<pt[1] + 2 * sx, pt[2]>>}, {pt, c, <<pt[1], pt[2] + 2 * sy>>}}
                 : sx \in {-1, 1}, sy \in {-1, 1} }
    ELSE { {pt, <<pt[1] + d[1], pt[2] + d[2]>>, <<pt[1] + d[3], pt[2] + d[4]>>} :
             d \in {<<-1, -1, 1, -1>>, <<1, -1, 1, 1>>, <<1, 1, -1, 1>>, <<-1, 1, -1, -1>>} }

(* pt is an interior point of the geometry g: every triangle around it *)
(* belongs to g                                                        *)
Interior(g, pt) == Star(pt) \subseteq g

(* the points of the closure of left minus right *)
PointsOutside(zs, left, right) == UNION (zs[left] \ zs[right])

(* C14 as stated: when a line C = A - B is accepted, in_zone of C at a   *)
(* point is true exactly when in_zone of A is and in_zone of B is not;   *)
(* when a line C = A ^ B is accepted, exactly when in_zone of exactly    *)
(* one of A and B is.                                                    *)
C14_PointwiseDifference ==
    [][(Combines("-") \/ Combines("^")) =>
          LET n == MatchAt(idx + 1).name
              l == OpAt(idx + 1).left
              r == OpAt(idx + 1).right
              minus == OpAt(idx + 1).op = "-"
          IN  \A p \in GridPoints :
                  In(zones', n, p) <=> IF minus THEN In(zones, l, p) /\ ~In(zones, r, p)
                                                ELSE In(zones, l, p) # In(zones, r, p)]_vars

(* C14 amended: the result is the closed difference.  When C = A - B is  *)
(* accepted, in_zone of C at p is true exactly when p is a point of A    *)
(* outside B or a limit of such points; so it is true where A holds and  *)
(* B does not, false where A does not hold and false in the interior of  *)
(* B.  When C = A ^ B is accepted, it is true exactly when p is a point  *)
(* of one operand outside the other or a limit of such points; so it is  *)
(* true where exactly one holds, false where none holds and false in    *)
(* the common interior.                                                  *)
C14_ClosedDifference ==
    [][(Combines("-") \/ Combines("^")) =>
          LET n == MatchAt(idx + 1).name
              l == OpAt(idx + 1).left
              r == OpAt(idx + 1).right
              minus == OpAt(idx + 1).op = "-"
              onlyA == PointsOutside(zones, l, r)
              onlyB == PointsOutside(zones, r, l)
          IN  \A p \in GridPoints :
                  LET c == In(zones', n, p)
                      a == In(zones, l, p)
                      b == In(zones, r, p)
                  IN  IF minus
                      THEN /\ c <=> p \in onlyA
                           /\ (a /\ ~b) => c
                           /\ c => a /\ ~Interior(zones[r], p)
                      ELSE /\ c <=> p \in onlyA \cup onlyB
                           /\ (a # b) => c
                           /\ c => /\ a \/ b
                                   /\ ~(Interior(zones[l], p) /\ Interior(zones[r], p))]_vars

(* a difference A - B has been bound that holds a point of B (on the    *)
(* boundary of B) and leaves out a point of A (inside B)                *)
C14_Witness ==
    /\ Accepted /\ IsSetOpLineAt(idx) /\ OpAt(idx).op = "-"
    /\ MatchAt(idx).name \notin {OpAt(idx).left, OpAt(idx).right}
    /\ \E p \in GridPoints :
          /\ Covers(zones[MatchAt(idx).name], p)
          /\ Covers(zones[OpAt(idx).right], p)
    /\ \E p \in GridPoints :
          /\ ~Covers(zones[MatchAt(idx).name], p)
          /\ Covers(zones[OpAt(idx).left], p)
          /\ Interior(zones[OpAt(idx).right], p)

(* the last of the first k lines that defines the name n, 0 if none *)
LastLineOf(n, k) ==
    LET ds == {i \in 1..k : IsDefinition(i) /\ MatchAt(i).name = n}
    IN  IF ds = {} THEN 0 ELSE CHOOSE i \in ds : \A j \in ds : j <= i

(* after k lines the name n holds the result of a line l op r whose     *)
(* operands have not been bound again since                             *)
HoldsResult(n, op, k) ==
    LET j == LastLineOf(n, k)
    IN  /\ j > 0 /\ IsSetOpLineAt(j) /\ OpAt(j).ok /\ OpAt(j).op = op
        /\ LastLineOf(OpAt(j).left, k) < j
        /\ LastLineOf(OpAt(j).right, k) < j
OperandsOf(n, k) == <<OpAt(LastLineOf(n, k)).left, OpAt(LastLineOf(n, k)).right>>

(* get_area of a name of the table *)
AreaOf(zs, n) == GetArea(zs, n).value[1]

(* the step that processes line idx + 1, a set operation with the       *)
(* operator op on two names of the table                                *)
Applies(op) ==
    /\ Processing /\ IsSetOpLineAt(idx + 1)
    /\ OpAt(idx + 1).ok /\ OpAt(idx + 1).op = op
    /\ {OpAt(idx + 1).left, OpAt(idx + 1).right} \subseteq DOMAIN zones

(* the two names of the table have a point in common *)
Meet(zs, l, r) == \E p \in GridPoints : In(zs, l, p) /\ In(zs, r, p)

(* after k lines, whenever u holds A U B and i holds A I B for the same *)
(* A and B, area(u) + area(i) = area(A) + area(B)                       *)
InclusionExclusion(zs, k) ==
    \A u \in DOMAIN zs : \A i \in DOMAIN zs :
        (/\ HoldsResult(u, "U", k) /\ HoldsResult(i, "I", k)
         /\ OperandsOf(u, k) = OperandsOf(i, k))
        => AreaOf(zs, u) + AreaOf(zs, i)
             = AreaOf(zs, OperandsOf(u, k)[1]) + AreaOf(zs, OperandsOf(u, k)[2])

(* C15 as stated: a line A U B and a line A I B on any two names of the *)
(* table are accepted, and the areas of their results add up to the sum *)
(* of the areas of A and B.                                              *)
C15_AnyTwoZones ==
    [][/\ (Applies("U") \/ Applies("I")) => pc' # "failed"
       /\ (Building /\ idx' = idx + 1) => InclusionExclusion(zones', idx')]_vars

(* C15 amended: a line A U B on two names of the table is accepted       *)
(* unless both shapes are empty; a line A I B is accepted exactly when A *)
(* and B have a point in common, and fails with the empty-result error   *)
(* otherwise (so always when A and B are disjoint); whenever both        *)
(* results are in the table, area(A U B) + area(A I B) = area(A) +       *)
(* area(B).                                                              *)
C15_InclusionExclusion ==
    [][/\ Applies("U") =>
             (pc' = "failed" <=> /\ IsEmpty(zones[OpAt(idx + 1).left])
                                 /\ IsEmpty(zones[OpAt(idx + 1).right]))
       /\ Applies("I") =>
             /\ pc' = "failed" <=> ~Meet(zones, OpAt(idx + 1).left, OpAt(idx + 1).right)
             /\ pc' = "failed" => err'.kind = "EmptyResult"
       /\ (Building /\ idx' = idx + 1) => InclusionExclusion(zones', idx')]_vars

(* the union and the intersection of two zones that overlap in part are *)
(* both in the table                                                    *)
C15_Witness ==
    /\ pc \in {"building", "ready"} /\ zh = "none"
    /\ \E u \in DOMAIN zones : \E i \in DOMAIN zones :
          /\ HoldsResult(u, "U", idx) /\ HoldsResult(i, "I", idx)
          /\ OperandsOf(u, idx) = OperandsOf(i, idx)
          /\ Area4(zones[i]) > 0
          /\ Area4(zones[i]) < Area4(zones[OperandsOf(u, idx)[1]])
          /\ Area4(zones[i]) < Area4(zones[OperandsOf(u, idx)[2]])

(* after k lines, whenever u holds A U B, i holds A I B and x holds      *)
(* A ^ B for the same A and B, area(x) = area(u) - area(i)              *)
SymmetricDifferenceArea(zs, k) ==
    \A x \in {n \in DOMAIN zs : HoldsResult(n, "^", k)} :
        \A u \in {n \in DOMAIN zs : HoldsResult(n, "U", k)} :
            \A i \in {n \in DOMAIN zs : HoldsResult(n, "I", k)} :
                (OperandsOf(u, k) = OperandsOf(x, k) /\ OperandsOf(i, k) = OperandsOf(x, k))
                => AreaOf(zs, x) = AreaOf(zs, u) - AreaOf(zs, i)

(* C16: after every line of the construction, whenever the table holds  *)
(* A U B, A I B and A ^ B for the same A and B, get_area of the          *)
(* symmetric difference is get_area of the union minus get_area of the   *)
(* intersection.                                                         *)
C16_SymmetricDifferenceArea ==
    [][(Building /\ idx' = idx + 1) => SymmetricDifferenceArea(zones', idx')]_vars

(* the table holds the union, the intersection and the symmetric         *)
(* difference of two zones that overlap in part                          *)
C16_Witness ==
    /\ pc \in {"building", "ready"} /\ zh = "none"
    /\ \E u \in DOMAIN zones : \E i \in DOMAIN zones : \E x \in DOMAIN zones :
          /\ HoldsResult(u, "U", idx) /\ HoldsResult(i, "I", idx)
          /\ HoldsResult(x, "^", idx)
          /\ OperandsOf(u, idx) = OperandsOf(i, idx)
          /\ OperandsOf(u, idx) = OperandsOf(x, idx)
          /\ Area4(zones[i]) > 0
          /\ Area4(zones[x]) > 0
          /\ Area4(zones[x]) < Area4(zones[u])

(* the literal of the polygon line that last bound the name n *)
LiteralOf(n, k) == LiteralEval(MatchAt(LastLineOf(n, k)).expr)

(* after k lines the name x holds a - b for the squares of the example: *)
(* a = [(0,0),(4,0),(4,4),(0,4)] and b = [(2,2),(6,2),(6,6),(2,6)]      *)
IsExampleDifference(x, k) ==
    /\ HoldsResult(x, "-", k)
    /\ IsPolygonLineAt(LastLineOf(OperandsOf(x, k)[1], k))
    /\ IsPolygonLineAt(LastLineOf(OperandsOf(x, k)[2], k))
    /\ LiteralOf(OperandsOf(x, k)[1], k) = Literals["[s04]"]
    /\ LiteralOf(OperandsOf(x, k)[2], k) = Literals["[s26]"]

(* after k lines, whenever x holds A - B and i holds A I B for the same *)
(* A and B, area(x) = area(A) - area(i); the difference of the example  *)
(* has area 12 (48 quarters)                                            *)
DifferenceArea(zs, k) ==
    \A x \in {n \in DOMAIN zs : HoldsResult(n, "-", k)} :
        /\ \A i \in {n \in DOMAIN zs : HoldsResult(n, "I", k)} :
              OperandsOf(x, k) = OperandsOf(i, k)
              => AreaOf(zs, x) = AreaOf(zs, OperandsOf(x, k)[1]) - AreaOf(zs, i)
        /\ IsExampleDifference(x, k) => AreaOf(zs, x) = 4 * 12

(* C17: after every line of the construction, whenever the table holds  *)
(* A - B and A I B for the same A and B, get_area of the difference is   *)
(* get_area of A minus get_area of the intersection; the difference of   *)
(* the squares (0,0)-(4,4) and (2,2)-(6,6) has area 12.                  *)
C17_DifferenceArea ==
    [][(Building /\ idx' = idx + 1) => DifferenceArea(zones', idx')]_vars

(* the table holds a - b and a I b for the squares of the example *)
C17_Witness ==
    /\ pc \in {"building", "ready"} /\ zh = "none"
    /\ \E x \in DOMAIN zones : \E i \in DOMAIN zones :
          /\ IsExampleDifference(x, idx)
          /\ HoldsResult(i, "I", idx)
          /\ OperandsOf(x, idx) = OperandsOf(i, idx)
          /\ Area4(zones[i]) = 4 * 4

(* the grid point p lies on an edge or a vertex of the closed ring r    *)
(* (unit coordinates), or strictly inside it                           *)
OnRing(r, p) ==
    \E i \in 1..(Len(r) - 1) :
        OnSegment(<<2 * r[i][1], 2 * r[i][2]>>, <<2 * r[i + 1][1], 2 * r[i + 1][2]>>, p)
InsideRing(r, p) == Inside(r, <<3 * p[1], 3 * p[2]>>)

(* the points of the region g (boundary included): those of its parts *)
Region(g) == UNION g

(* C18: for the zone a line has just bound and every grid point p,       *)
(* in_zone is true exactly when p belongs to the region, boundary        *)
(* included, and false outside; for a polygon literal that is: true on   *)
(* every edge and vertex of the ring written, true strictly inside it,   *)
(* false elsewhere; for a difference A - B, it is true at every boundary *)
(* point of B in the interior of A (the ring of a hole).                 *)
C18_ClosedMembership ==
    [][(Processing /\ pc' # "failed") =>
          LET n == MatchAt(idx + 1).name
              lit == LiteralEval(MatchAt(idx + 1).expr)
              ring == CloseRing(VerticesOf(lit))
              l == OpAt(idx + 1).left
              r == OpAt(idx + 1).right
          IN  /\ {p \in GridPoints : In(zones', n, p)} = Region(zones'[n])
              /\ (IsPolygonLineAt(idx + 1) /\ NumericPairs(lit)) =>
                    \A p \in GridPoints :
                        In(zones', n, p) <=> OnRing(ring, p) \/ InsideRing(ring, p)
              /\ Combines("-") =>
                    \A p \in GridPoints :
                        (/\ In(zones, r, p)
                         /\ ~Interior(zones[r], p)
                         /\ Interior(zones[l], p))
                        => In(zones', n, p)]_vars

(* a difference with a hole has been bound: B lies in the interior of A, *)
(* the result holds a point of the ring of B and leaves out a point     *)
(* inside B                                                             *)
C18_Witness ==
    /\ Accepted /\ zh = "none" /\ IsSetOpLineAt(idx) /\ OpAt(idx).op = "-"
    /\ MatchAt(idx).name \notin {OpAt(idx).left, OpAt(idx).right}
    /\ \A p \in GridPoints :
          Covers(zones[OpAt(idx).right], p) => Interior(zones[OpAt(idx).left], p)
    /\ \E p \in GridPoints :
          /\ Covers(zones[OpAt(idx).right], p)
          /\ ~Interior(zones[OpAt(idx).right], p)
          /\ Covers(zones[MatchAt(idx).name], p)
    /\ \E p \in GridPoints :
          /\ Interior(zones[OpAt(idx).right], p)
          /\ ~Covers(zones[MatchAt(idx).name], p)

(* the tuple b is the tight box of the vertices vs (unit coordinates; b *)
(* in doubled coordinates): it has four components, every vertex lies   *)
(* within them and each of them is attained by a vertex                 *)
IsBoxOf(b, vs) ==
    /\ Len(b) = 4
    /\ \A k \in 1..Len(vs) :
          /\ b[1] <= 2 * vs[k][1] /\ 2 * vs[k][1] <= b[3]
          /\ b[2] <= 2 * vs[k][2] /\ 2 * vs[k][2] <= b[4]
    /\ \E k \in 1..Len(vs) : 2 * vs[k][1] = b[1]
    /\ \E k \in 1..Len(vs) : 2 * vs[k][2] = b[2]
    /\ \E k \in 1..Len(vs) : 2 * vs[k][1] = b[3]
    /\ \E k \in 1..Len(vs) : 2 * vs[k][2] = b[4]

(* C19 as stated: for the zone a polygon-literal line has just bound,    *)
(* get_bounds returns (min x, min y, max x, max y) over the vertices     *)
(* written in the literal.                                               *)
C19_BoundsOfVertices ==
    (Accepted /\ zh = "none" /\ IsPolygonLineAt(idx)) =>
        /\ NumericPairs(LiteralEval(MatchAt(idx).expr))
        /\ IsBoxOf(GetBounds(zones, MatchAt(idx).name).value,
                   VerticesOf(LiteralEval(MatchAt(idx).expr)))

(* the ring of the circle literal of line i *)
CircleRingAt(i) ==
    LET v == LiteralEval(MatchAt(i).expr)
    IN  BufferRing(NumberOf(v.items[1]), NumberOf(v.items[2]), NumberOf(v.items[3]), circle_res)

(* C21 as stated: the zone a circle-literal line (cx, cy, r) has just    *)
(* bound is the polygon through exactly circle_res vertices, all at      *)
(* distance r from (cx, cy).                                             *)
C21_ResolutionSides ==
    (Accepted /\ zh = "none" /\ IsCircleLineAt(idx)) =>
        LET v == LiteralEval(MatchAt(idx).expr)
            cx == NumberOf(v.items[1])
            cy == NumberOf(v.items[2])
            r == NumberOf(v.items[3])
            ring == CircleRingAt(idx)
        IN  /\ zones[MatchAt(idx).name] = PolygonCells(ring)
            /\ \A k \in 1..Len(ring) :
                  (ring[k][1] - cx) * (ring[k][1] - cx) + (ring[k][2] - cy) * (ring[k][2] - cy) = r * r
            /\ Len(ring) = circle_res

(* the text of a raw line before its first "#" *)
RECURSIVE BeforeHash(_)
BeforeHash(raw) ==
    IF raw = <<>> \/ Head(raw) = "#" THEN <<>>
    ELSE <<Head(raw)>> \o BeforeHash(Tail(raw))
HasHash(raw) == \E k \in 1..Len(raw) : raw[k] = "#"
AllSpace(text) == \A k \in 1..Len(text) : IsSpace(text[k])

(* the right-hand side expr of a definition of name at line i evaluated *)
(* against the table zs                                                 *)
EvaluateExpr(zs, name, expr, i) ==
    IF IsPolygonExpr(expr) THEN PolygonLine(name, expr, i)
    ELSE IF IsCircleExpr(expr) THEN ParseCircle(expr, name, i, circle_res)
    ELSE SetOpLine(zs, name, expr, i)

(* C22: a line whose text before the first "#" is empty or whitespace is *)
(* skipped: the names, their order and shapes, the error and the course  *)
(* of construction are as before.  Any other line with a "#" is treated  *)
(* as its text before the "#": when that text is a definition, the step  *)
(* binds what the definition alone evaluates to, or fails with its error.*)
C22_Comments ==
    [][(Building /\ idx' = idx + 1) =>
          LET raw == Lines(code_str)[idx + 1]
              code == BeforeHash(raw)
              m == AssignMatch(Strip(code))
              r == EvaluateExpr(zones, m.name, m.expr, idx + 1)
          IN  /\ AllSpace(code) =>
                    /\ zones' = zones /\ zone_order' = zone_order
                    /\ pc' = pc /\ err' = err
              /\ (~AllSpace(code) /\ HasHash(raw) /\ ~m.ok) =>
                    pc' = "failed" /\ err'.kind = "SyntaxError" /\ zones' = zones
              /\ (~AllSpace(code) /\ HasHash(raw) /\ m.ok) =>
                    IF r.err = NoErr
                    THEN /\ pc' = "building"
                         /\ m.name \in DOMAIN zones' /\ zones'[m.name] = r.shape
                         /\ \A n \in DOMAIN zones \ {m.name} : zones'[n] = zones[n]
                    ELSE pc' = "failed" /\ err' = r.err /\ zones' = zones]_vars

(* a definition with a trailing comment has bound its zone after a      *)
(* comment-only or blank line was skipped                               *)
C22_Witness ==
    /\ Accepted /\ zh = "none" /\ idx >= 2
    /\ HasHash(Lines(code_str)[idx])
    /\ MatchAt(idx).name \in DOMAIN zones
    /\ Area4(zones[MatchAt(idx).name]) > 0
    /\ \E k \in 1..(idx - 1) : AllSpace(BeforeHash(Lines(code_str)[k]))

(* the forms of the grammar, read off the text: an identifier; a line   *)
(* `identifier = expression`; an expression `identifier OP identifier`  *)
IsIdentifier(t) == t # <<>> /\ \A k \in 1..Len(t) : IsWord(t[k])
Part(t, i, j) == SubSeq(t, i, j)
AssignmentForm(line) ==
    \E n \in 1..Len(line) : \E e \in (n + 1)..(Len(line) - 1) :
        /\ IsIdentifier(Part(line, 1, n))
        /\ AllSpace(Part(line, n + 1, e - 1))
        /\ line[e] = "="
ExpressionOf(line) ==
    LET e == CHOOSE k \in 1..Len(line) : line[k] = "=" /\ \A j \in 1..(k - 1) : line[j] # "="
        x == CHOOSE k \in (e + 1)..Len(line) :
                 ~IsSpace(line[k]) /\ \A j \in (e + 1)..(k - 1) : IsSpace(line[j])
    IN  Part(line, x, Len(line))
BinaryForm(expr) ==
    \E i \in 1..Len(expr) : \E o \in (i + 1)..Len(expr) : \E j \in (o + 1)..Len(expr) :
        /\ IsIdentifier(Part(expr, 1, i))
        /\ AllSpace(Part(expr, i + 1, o - 1))
        /\ IsOpChar(expr[o])
        /\ AllSpace(Part(expr, o + 1, j - 1))
        /\ IsIdentifier(Part(expr, j, Len(expr)))
IsLiteralText(expr) == Len(expr) = 1 /\ IsLiteral(expr[1])

(* the step that processes line idx + 1, which is not skipped *)
Parses == Building /\ idx' = idx + 1 /\ LineAt(idx + 1) # <<>>
SyntaxFailure == pc' = "failed" /\ err'.kind \in SyntaxKinds /\ zones' = zones

(* C23: a line that is not skipped and is not `identifier = expression`  *)
(* fails with a syntax error; so does a line whose expression is not     *)
(* taken for a polygon literal (it does not start with "[") nor for a    *)
(* circle literal (it is not enclosed in "(" and ")") and is not         *)
(* `identifier OP identifier`, such as a chain of three operands or a    *)
(* bare alias.  In both cases nothing is bound.                          *)
C23_SyntaxError ==
    [][Parses =>
          LET line == LineAt(idx + 1)
              expr == ExpressionOf(line)
          IN  IF ~AssignmentForm(line)
              THEN SyntaxFailure /\ err'.kind = "SyntaxError" /\ zone_order' = zone_order
              ELSE (~IsPolygonExpr(expr) /\ ~IsCircleExpr(expr) /\ ~BinaryForm(expr))
                   => (SyntaxFailure /\ err'.kind = "InvalidExpression"
                         /\ zone_order' = zone_order)]_vars

(* construction has failed with the syntax error of an expression on a  *)
(* chain of three operands that are all bound                           *)
C23_Witness ==
    /\ pc = "failed" /\ err.kind = "InvalidExpression" /\ idx >= 2
    /\ \E i \in 1..Len(ExpressionOf(LineAt(idx))) :
          /\ BinaryForm(Part(ExpressionOf(LineAt(idx)), 1, i))
          /\ i < Len(ExpressionOf(LineAt(idx)))
          /\ IsOpChar(ExpressionOf(LineAt(idx))[i + 2])
    /\ A \in DOMAIN zones

(* C24 as stated: processing a line leaves every name that is bound      *)
(* bound to the shape it had: once bound, a shape never changes.         *)
C24_NeverChanges ==
    [][(Building /\ idx' = idx + 1) =>
          \A n \in DOMAIN zones : n \in DOMAIN zones' /\ zones'[n] = zones[n]]_vars

(* C24 amended: processing a line changes at most the binding of the     *)
(* line's own target: every other bound name, the operands of a set      *)
(* operation included, keeps its shape and its place; a line that is     *)
(* skipped or fails changes nothing; the shape of a bound name changes   *)
(* only when a later line that defines the same name is accepted.        *)
C24_OnlyTarget ==
    [][(Building /\ idx' = idx + 1) =>
          /\ \A n \in DOMAIN zones :
                /\ n \in DOMAIN zones'
                /\ zones'[n] # zones[n] =>
                      /\ IsDefinition(idx + 1) /\ MatchAt(idx + 1).name = n
                      /\ pc' = "building"
          /\ DOMAIN zones' \subseteq DOMAIN zones \cup
                (IF IsDefinition(idx + 1) THEN {MatchAt(idx + 1).name} ELSE {})
          /\ SubSeq(zone_order', 1, Len(zone_order)) = zone_order
          /\ (pc' = "failed" \/ ~IsDefinition(idx + 1)) =>
                zones' = zones /\ zone_order' = zone_order]_vars

(* a name has been bound again, by a polygon literal other than the one *)
(* of its first definition, while another name is in the table         *)
C24_Witness ==
    /\ Accepted /\ zh = "none" /\ IsPolygonLineAt(idx)
    /\ DefCount(MatchAt(idx).name, idx) >= 2
    /\ IsPolygonLineAt(FirstLineOf(MatchAt(idx).name))
    /\ LiteralEval(MatchAt(FirstLineOf(MatchAt(idx).name)).expr) # LiteralEval(MatchAt(idx).expr)
    /\ Cardinality(DOMAIN zones) >= 2

(***************************************************************************)
(* C25                                                                     *)
(***************************************************************************)
(* C25: the outputs of update_zones are all-or-nothing.  When the       *)
(* constructor raised, or a later query raised, the figure is empty,    *)
(* the alert is open with the error and the stored data is None; data   *)
(* is stored only when every definition line of the source was bound,   *)
(* and is then the source and the names in their order; a source with   *)
(* no definition gives the 'No zones defined' alert and None.            *)
C25_AllOrNothing ==
    (last.call = "update_zones" /\ last.arg[1] = "click") =>
        \A h \in {ZonesHandler(code_str, CallbackResolution)} :
        \A out \in {last.value} :
        /\ (h.failed \/ last.raised) =>
              /\ out.figure = NoFigure /\ out.is_open /\ out.data = <<>>
              /\ out.message # NoErr
              /\ h.failed => out.message = h.err
        /\ out.data # <<>> =>
              /\ ~h.failed /\ ~out.is_open /\ out.message = NoErr /\ ~last.raised
              /\ out.data = <<code_str, h.order>>
              /\ Len(out.figure.traces) = Len(h.order)
              /\ \A i \in 1..Len(Lines(code_str)) :
                    IsDefinition(i) => \E k \in 1..Len(h.order) : h.order[k] = MatchAt(i).name
        /\ (~h.failed /\ \A i \in 1..Len(Lines(code_str)) : ~IsDefinition(i)) =>
              /\ out.figure = NoFigure /\ out.is_open /\ out.data = <<>>
              /\ out.message.kind = "NoZones"

(* the button was clicked for a source whose third line raises after two *)
(* zones, one of them a buffered circle, had been put in the table       *)
C25_Witness ==
    /\ last.call = "update_zones" /\ last.arg[1] = "click"
    /\ \E h \in {ZonesHandler(code_str, CallbackResolution)} :
           /\ h.failed
           /\ Cardinality(DOMAIN h.zones) >= 2
           /\ \E n \in DOMAIN h.zones : \E c \in h.zones[n] : \E p \in c : IsRingVertex(p)
    /\ last.value.data = <<>>

(***************************************************************************)
(* Vocabulary of the properties on tracking data                           *)
(***************************************************************************)
Detects == dpc = "loaded" /\ dpc' = "detected"
Fixes == dpc = "detected" /\ dpc' = "processed"
Filters == dpc \in {"loaded", "processed"} /\ dpc' = "filtered"
FramesOf(d) == d[3]..d[4]
IsFrameLevel(d) == d[2] = 0 - 1
Cells(frames) ==
    { <<f, a, b>> : f \in 0..(NumFrames(frames) - 1),
                    a \in 0..(NumAnimals(frames) - 1),
                    b \in 0..(NumBodyparts(frames) - 1) }
At(frames, c) == Entry(frames, c[1], c[2], c[3])
(* x or y is NaN, or the confidence is below 0.5 *)
MissingOrLow(e) == IsNaN(e[1]) \/ IsNaN(e[2]) \/ Lt(e[3], LowConfidence)
(* v is the value at frame f of the line through (fb, pb) and (fa, pa) *)
OnLine(v, f, fb, pb, fa, pa) == (v - pb) * (fa - fb) = (f - fb) * (pa - pb)

(***************************************************************************)
(* C26                                                                     *)
(***************************************************************************)
(* C26: in the list detect_discontinuities returns, no frame of a        *)
(* frame-level discontinuity of an animal lies between the start and the *)
(* end of a body-part-level discontinuity of the same animal.            *)
C26_CountedOnce ==
    dpc = "detected" =>
        \A i \in 1..Len(discontinuities) : \A j \in 1..Len(discontinuities) :
            LET fl == discontinuities[i]
                bl == discontinuities[j]
            IN  (IsFrameLevel(fl) /\ ~IsFrameLevel(bl) /\ fl[1] = bl[1]) =>
                    FramesOf(fl) \cap FramesOf(bl) = {}

(***************************************************************************)
(* C27                                                                     *)
(***************************************************************************)
(* C27: fix_data_discontinuities leaves the data passed in as it was:    *)
(* every entry of the caller's data is the same after the call.          *)
C27_InputUnmodified ==
    [][Fixes => raw_data' = raw_data]_vars

(***************************************************************************)
(* C28                                                                     *)
(***************************************************************************)
(* C28: an entry of the processed data differs from the entry passed in  *)
(* only if its x or y was NaN or its confidence was below 0.5; so a      *)
(* valid body part of a frame where another body part has confidence -1  *)
(* keeps its entry.                                                      *)
C28_OnlyMissingOrLow ==
    [][Fixes =>
          \A c \in Cells(raw_data) :
              At(processed_data'.data, c) # At(raw_data, c) => MissingOrLow(At(raw_data, c))]_vars

(***************************************************************************)
(* C29                                                                     *)
(***************************************************************************)
(* C29: with the method 'linear', in every turn of the loop, a point     *)
(* written at frame f lies on the line through the valid point the       *)
(* search before the gap stops at and the valid point the search after   *)
(* the gap stops at, at the position of f between the frames of these    *)
(* two points, in both branches.                                         *)
C29_OnSegment ==
    [][(Fixes /\ args'.method = "linear") =>
          \A k \in 1..Len(discontinuities) :
              LET d == discontinuities[k]
                  before == FixedUpTo(raw_data, discontinuities, k - 1, "linear",
                                      args'.max_gap, InterpConfidence)
                  after == FixOne(before, d, "linear", args'.max_gap, InterpConfidence)
              IN  \A c \in Cells(raw_data) :
                      At(after, c) # At(before, c) =>
                          LET fb == SearchBefore(before, c[2], c[3], d[3] - 1)
                              fa == SearchAfter(before, c[2], c[3], d[4] + 1)
                          IN  /\ OnLine(At(after, c)[1], c[1],
                                           fb, At(before, <<fb, c[2], c[3]>>)[1],
                                           fa, At(before, <<fa, c[2], c[3]>>)[1])
                              /\ OnLine(At(after, c)[2], c[1],
                                           fb, At(before, <<fb, c[2], c[3]>>)[2],
                                           fa, At(before, <<fa, c[2], c[3]>>)[2])]_vars

(***************************************************************************)
(* C30                                                                     *)
(***************************************************************************)
(* C30: filter_data keeps every frame and the first num_animals animals  *)
(* of each; a point whose confidence is below the threshold or whose     *)
(* body part is not among the selected ones (every point, when none is   *)
(* selected) becomes NaN and every other point is kept; the data passed  *)
(* in is left as it was.                                                 *)
C30_FilterData ==
    [][Filters =>
          /\ Len(filtered_data') = Len(raw_data)
          /\ \A f \in 1..Len(raw_data) :
                /\ Len(filtered_data'[f]) =
                      (IF args'.num_animals < Len(raw_data[f])
                       THEN args'.num_animals ELSE Len(raw_data[f]))
                /\ \A a \in 1..Len(filtered_data'[f]) : \A b \in 1..Len(raw_data[f][a]) :
                      IF \/ Lt(raw_data[f][a][b][3], args'.confidence_threshold)
                         \/ (b - 1) \notin args'.selected_bodyparts
                      THEN filtered_data'[f][a][b] = <<NaN, NaN, NaN>>
                      ELSE filtered_data'[f][a][b] = raw_data[f][a][b]
          /\ raw_data' = raw_data]_vars

====
